---- MODULE Spec2Model ----
(***************************************************************************)
(* A model of the Ely scripting language: the single-pass Pratt compiler   *)
(* (src/compiler/compiler.ts) and the stack virtual machine (the last      *)
(* ElyVm class of src/vm/value.ts, lines 1018-1666).                       *)
(*                                                                         *)
(* The compiler is a pure function of the token stream and is written as   *)
(* recursive operators over a compile state; a thrown Error is the field   *)
(* `thrown` of that state, propagated by every caller up to the catch in   *)
(* statement().  The VM is a state machine with one action per opcode      *)
(* handler.  Numbers are integers.                                         *)
(***************************************************************************)
EXTENDS Integers, Sequences, FiniteSets, TLC

\* ---------------------------------------------------------------- tokens

\* A token: its type, its string payload, and (Number) its digits.
Tok(t) == [type |-> t, value |-> "", digits |-> <<>>]
Id(name) == [type |-> "Identifier", value |-> name, digits |-> <<>>]
Str(text) == [type |-> "String", value |-> text, digits |-> <<>>]
Num(ds) == [type |-> "Number", value |-> "", digits |-> ds]
EOFTok == Tok("EOF")
ErrorTok == Tok("Error")

\* parseFloat of a run of decimal digits.
RECURSIVE parseFloat(_)
parseFloat(ds) ==
  IF Len(ds) = 0 THEN 0
  ELSE 10 * parseFloat(SubSeq(ds, 1, Len(ds) - 1)) + ds[Len(ds)]

\* ------------------------------------------------- program elements, values

\* RawValue: an element of a Program (opcode, number, string, bool, function).
Op(name) == [k |-> "op", s |-> name, n |-> 0, b |-> FALSE]
RNum(n) == [k |-> "num", s |-> "", n |-> n, b |-> FALSE]
RStr(s) == [k |-> "str", s |-> s, n |-> 0, b |-> FALSE]
RBool(b) == [k |-> "bool", s |-> "", n |-> 0, b |-> b]
RFn(id) == [k |-> "fn", s |-> "", n |-> id, b |-> FALSE]

\* Value: the tagged union.  A Function value is the identity (index in the
\* function table) of its function object; "undefined" is JavaScript's
\* undefined, which the stack can hold.
VNumber(n) == [type |-> "Number", n |-> n, s |-> "", b |-> FALSE]
VString(s) == [type |-> "String", n |-> 0, s |-> s, b |-> FALSE]
VBool(b) == [type |-> "Bool", n |-> 0, s |-> "", b |-> b]
VNull == [type |-> "Null", n |-> 0, s |-> "", b |-> FALSE]
VFunction(id) == [type |-> "Function", n |-> id, s |-> "", b |-> FALSE]
VNative(name, arity) == [type |-> "NativeFunction", n |-> arity, s |-> name, b |-> FALSE]
Undefined == [type |-> "undefined", n |-> 0, s |-> "", b |-> FALSE]

createValue(raw) ==
  CASE raw.k = "fn" -> VFunction(raw.n)
    [] raw.k = "num" -> VNumber(raw.n)
    [] raw.k = "str" -> VString(raw.s)
    [] raw.k = "bool" -> VBool(raw.b)
    [] OTHER -> VString(raw.s)

createNullValue == VNull

\* A function object as the compiler creates it: upValues starts empty and is
\* filled by the VM's Closure handler.
createFunctionValue(name, arity, program, upValueCount) ==
  [name |-> name, arity |-> arity, value |-> program,
   upValueCount |-> upValueCount, upValues |-> <<>>]

\* ------------------------------------------------------------- compiler

PrecNone == 0
PrecAssignment == 1
PrecEquality == 2
PrecLogical == 3
PrecComparison == 4
PrecSum == 5
PrecProduct == 6
PrecUnary == 7
PrecCall == 8

\* rules[type]: prefix handler, infix handler, precedence ("" = no handler).
Rule(prec, prefixFn, infixFn) == [prec |-> prec, prefixFn |-> prefixFn, infixFn |-> infixFn]
getRule(type) ==
  CASE type = "Number" -> Rule(PrecNone, "number", "")
    [] type = "Identifier" -> Rule(PrecNone, "identifier", "")
    [] type \in {"String", "True", "False"} -> Rule(PrecNone, "literal", "")
    [] type = "LSquare" -> Rule(PrecCall, "list", "subscript")
    [] type = "LCurly" -> Rule(PrecCall, "hashTable", "")
    [] type = "Not" -> Rule(PrecUnary, "unary", "")
    [] type = "Function" -> Rule(PrecNone, "functionDeclaration", "")
    [] type \in {"EqualEqual", "BangEqual"} -> Rule(PrecEquality, "", "binary")
    [] type \in {"Plus", "Minus"} -> Rule(PrecSum, "", "binary")
    [] type \in {"Star", "Slash"} -> Rule(PrecProduct, "", "binary")
    [] type \in {"Greater", "Less"} -> Rule(PrecComparison, "", "binary")
    [] type = "LParen" -> Rule(PrecCall, "grouping", "functionCall")
    [] type \in {"And", "Or"} -> Rule(PrecLogical, "", "binary")
    [] type = "Equal" -> Rule(PrecAssignment, "", "")
    [] OTHER -> Rule(PrecNone, "", "")

\* One Compiler object.  locals is the scope chain, innermost scope last;
\* a scope maps a name to its {stackSlot, isCaptured}.
NoVariables == [x \in {} |-> 0]
NewCompiler(current, previous) ==
  [output |-> <<>>, current |-> current, previous |-> previous,
   hadError |-> FALSE, locals |-> <<NoVariables>>, localCount |-> 0,
   upvalues |-> <<>>, scopeDepth |-> 0, arity |-> 0]

\* The compile state: the lexer (tokens and position), the chain of
\* compilers (the enclosing compilers first, `this` last), the function
\* objects created so far, the pending exception, the number of diagnostics
\* written by statement()'s catch, and five records of the compilation:
\* what every call of identifier() saw and emitted, where every statement
\* at scope depth 0 begins and ends in the output, what every
\* beginScope/endScope pair found and emitted, where the cursor was when
\* each call of statement() began and ended, and where each fatal was
\* raised and where synchronise() stopped after it.
StateOf(compiler, fns, toks) ==
  [toks |-> toks, lexpos |-> 1, comps |-> <<compiler>>,
   fns |-> fns, thrown |-> FALSE, msg |-> "", logged |-> 0, resolved |-> <<>>,
   stmts |-> <<>>, scopes |-> <<>>, calls |-> <<>>, syncs |-> <<>>]

NewState(toks) == StateOf(NewCompiler(ErrorTok, ErrorTok), <<>>, toks)

\* The index in the token stream of the current token of the compiler at
\* work (one past the last token when it is EOF).
Cursor(c) ==
  IF c.comps[Len(c.comps)].current.type = "EOF" THEN Len(c.toks) + 1 ELSE c.lexpos - 1

This(c) == c.comps[Len(c.comps)]
SetThis(c, comp) == [c EXCEPT !.comps[Len(c.comps)] = comp]

fatal(c, msg) == [c EXCEPT !.thrown = TRUE, !.msg = msg]

advance(c) ==
  LET tok == IF c.lexpos <= Len(c.toks) THEN c.toks[c.lexpos] ELSE EOFTok
      pos == IF c.lexpos <= Len(c.toks) THEN c.lexpos + 1 ELSE c.lexpos
  IN [SetThis(c, [This(c) EXCEPT !.previous = This(c).current, !.current = tok])
        EXCEPT !.lexpos = pos]

consume(c, type) ==
  IF This(c).current.type = type THEN advance(c) ELSE fatal(c, "expected")

emit(c, raws) == SetThis(c, [This(c) EXCEPT !.output = @ \o raws])

emitConstant(c, raw) == emit(emit(c, <<Op("PushImmediate")>>), <<raw>>)

beginScope(c) ==
  SetThis(c, [This(c) EXCEPT !.locals = Append(@, NoVariables),
                             !.scopeDepth = @ + 1])

RECURSIVE Pops(_)
Pops(n) == IF n = 0 THEN <<>> ELSE <<Op("Pop")>> \o Pops(n - 1)

\* endScope that forgets the locals of the scope without emitting a Pop.
endScopeEmitsNoPop(c) ==
  LET t == This(c)
      n == Cardinality(DOMAIN t.locals[Len(t.locals)])
  IN IF Len(t.locals) = 1 THEN fatal(c, "ended a scope with no parent")
     ELSE SetThis(c, [t EXCEPT !.localCount = @ - n,
                               !.locals = SubSeq(@, 1, Len(@) - 1),
                               !.scopeDepth = @ - 1])

endScope(c) ==
  LET t == This(c)
      n == Cardinality(DOMAIN t.locals[Len(t.locals)])
  IN IF Len(t.locals) = 1 THEN fatal(c, "ended a scope with no parent")
     ELSE SetThis(c, [t EXCEPT !.output = @ \o Pops(n),
                               !.localCount = @ - n,
                               !.locals = SubSeq(@, 1, Len(@) - 1),
                               !.scopeDepth = @ - 1])

\* locals.variables[name] = {stackSlot: localCount++, isCaptured: false}
addLocal(t, name) ==
  [t EXCEPT !.locals[Len(t.locals)] =
              (name :> [stackSlot |-> t.localCount, isCaptured |-> FALSE]) @@ @,
            !.localCount = @ + 1]

declareVariable(c, name) ==
  IF This(c).scopeDepth > 0 THEN SetThis(c, addLocal(This(c), name))
  ELSE emit(c, <<Op("DefineGlobal"), RStr(name)>>)


\* number.toString() for the list indices the compiler emits as keys.
DigitString == <<"0", "1", "2", "3", "4", "5", "6", "7", "8", "9">>
RECURSIVE toString(_)
toString(n) ==
  IF n < 0 THEN "-" \o toString(0 - n)
  ELSE IF n < 10 THEN DigitString[n + 1]
  ELSE toString(n \div 10) \o DigitString[(n % 10) + 1]

\* The result of a lookup that found nothing (JavaScript's undefined).
NotFound == 0 - 1

\* findLocal looks in the innermost scope only (the walk up the parent
\* chain is commented out in the source).
findLocal(t, name) ==
  LET variables == t.locals[Len(t.locals)]
  IN IF name \in DOMAIN variables THEN variables[name].stackSlot ELSE NotFound

\* addUpValue on compiler i: push {index, isLocal}, return its index.
addUpValue(c, i, index, isLocal) ==
  [c |-> [c EXCEPT !.comps[i].upvalues =
                     Append(@, [index |-> index, isLocal |-> isLocal])],
   r |-> Len(c.comps[i].upvalues)]

\* findUpValue on compiler i (its enclosing compiler is i - 1).
RECURSIVE findUpValue(_, _, _)
findUpValue(c, i, name) ==
  IF i = 1 THEN [c |-> c, r |-> NotFound]
  ELSE LET local == findLocal(c.comps[i - 1], name)
       IN IF local # NotFound
          THEN addUpValue(
                 [c EXCEPT !.comps[i - 1].locals[Len(c.comps[i - 1].locals)][name].isCaptured = TRUE],
                 i, local, TRUE)
          ELSE LET up == findUpValue(c, i - 1, name)
               IN IF up.r # NotFound THEN addUpValue(up.c, i, up.r, FALSE)
                  ELSE [c |-> up.c, r |-> NotFound]

\* The methods that reach themselves through one another are called through
\* the one recursive operator Method, which is defined after their bodies
\* (expressionBody, statementBody, ...) and dispatches on the method's name.
RECURSIVE Method(_, _, _)
expression(c, precedence) == Method("expression", c, precedence)
statement(c) == Method("statement", c, 0)
block(c, endings) == Method("block", c, endings)
ifStatement(c) == Method("ifStatement", c, 0)
functionDeclaration(c, isExpression) == Method("functionDeclaration", c, isExpression)
compileFunction(c) == Method("compileFunction", c, 0)

number(c) ==
  IF This(c).previous.type = "Number"
  THEN emitConstant(c, RNum(parseFloat(This(c).previous.digits)))
  ELSE fatal(c, "expected a number")

literal(c) ==
  LET token == This(c).previous
  IN CASE token.type = "String" -> emit(c, <<Op("PushImmediate"), RStr(token.value)>>)
       [] token.type = "Number" -> emit(c, <<Op("PushImmediate"), RStr(token.value)>>)
       [] token.type = "True" -> emit(c, <<Op("PushImmediate"), RBool(TRUE)>>)
       [] token.type = "False" -> emit(c, <<Op("PushImmediate"), RBool(FALSE)>>)
       [] OTHER -> fatal(c, "parse: literal must be string or number")

\* The last steps of identifier(): the assignment or the read, with the
\* opcodes and the operand chosen by the lookups.
assignOrGet(c, getOp, setOp, arg) ==
  LET assign(c2) == IF c2.thrown THEN c2 ELSE emit(c2, <<Op(setOp), arg>>)
  IN IF This(c).current.type = "Equal"
     THEN assign(expression(consume(c, "Equal"), PrecAssignment))
     ELSE emit(c, <<Op(getOp), arg>>)

identifier(c) ==
  LET token == This(c).previous
      seen(c1, getOp, setOp, arg) ==
        [c1 EXCEPT !.resolved =
           Append(@, [name |-> token.value, getOp |-> getOp, setOp |-> setOp,
                      arg |-> arg, locals |-> This(c).locals,
                      enclosing |-> [i \in 1..(Len(c.comps) - 1) |-> c.comps[i].locals]])]
      choose(c1, getOp, setOp, arg) ==
        assignOrGet(seen(c1, getOp, setOp, arg), getOp, setOp, arg)
      upvalueOrGlobal(up) ==
        IF up.r # NotFound THEN choose(up.c, "GetUpvalue", "SetUpvalue", RNum(up.r))
        ELSE choose(up.c, "GetGlobal", "SetGlobal", RStr(token.value))
      localOrOther(local) ==
        IF local # NotFound THEN choose(c, "GetLocal", "SetLocal", RNum(local))
        ELSE upvalueOrGlobal(findUpValue(c, Len(c.comps), token.value))
  IN IF token.type # "Identifier" THEN fatal(c, "parse: expected an identifier")
     ELSE localOrOther(findLocal(This(c), token.value))

unary(c) ==
  LET operator == This(c).previous
      operation(c1) ==
        IF c1.thrown THEN c1
        ELSE IF operator.type = "Not" THEN emit(c1, <<Op("Not")>>)
        ELSE fatal(c1, "unrecognised unary operator")
  IN operation(expression(c, PrecUnary))

binaryOps(type) ==
  CASE type = "Plus" -> <<Op("Add")>>
    [] type = "Minus" -> <<Op("Sub")>>
    [] type = "Star" -> <<Op("Multiply")>>
    [] type = "Slash" -> <<Op("Divide")>>
    [] type = "Greater" -> <<Op("Greater")>>
    [] type = "Less" -> <<Op("Less")>>
    [] type = "EqualEqual" -> <<Op("Equal")>>
    [] type = "BangEqual" -> <<Op("Equal"), Op("Not")>>
    [] type = "And" -> <<Op("And")>>
    [] type = "Or" -> <<Op("Or")>>
    [] OTHER -> <<>>

\* binary with the right operand compiled at the lowest precedence.
binaryAtLowestPrecedence(c) ==
  LET c1 == advance(c)
      token == This(c1).previous
      c2 == expression(c1, PrecAssignment)
  IN IF c2.thrown THEN c2
     ELSE IF binaryOps(token.type) = <<>> THEN fatal(c2, "parse: unrecognised operator")
     ELSE emit(c2, binaryOps(token.type))

binary(c) ==
  LET c1 == advance(c)
      token == This(c1).previous
      c2 == expression(c1, getRule(token.type).prec)
  IN IF c2.thrown THEN c2
     ELSE IF binaryOps(token.type) = <<>> THEN fatal(c2, "parse: unrecognised operator")
     ELSE emit(c2, binaryOps(token.type))

grouping(c) ==
  LET c1 == expression(c, PrecAssignment)
  IN IF c1.thrown THEN c1 ELSE consume(c1, "RParen")

subscript(c) ==
  LET c1 == consume(c, "LSquare")
      c2 == expression(c1, PrecAssignment)
      c3 == consume(c2, "RSquare")
  IN IF c1.thrown THEN c1 ELSE IF c2.thrown THEN c2 ELSE IF c3.thrown THEN c3
     ELSE emit(c3, <<Op("GetHT")>>)

\* The argument loop of functionCall: the state and the arity counted.
RECURSIVE callArguments(_, _)
callArguments(c, arity) ==
  IF This(c).current.type = "RParen" THEN [c |-> c, n |-> arity]
  ELSE LET c1 == expression(c, PrecAssignment)
       IN IF c1.thrown THEN [c |-> c1, n |-> arity]
          ELSE IF This(c1).current.type = "Comma"
          THEN callArguments(consume(c1, "Comma"), arity + 1)
          ELSE [c |-> c1, n |-> arity + 1]

functionCall(c) ==
  LET c1 == consume(c, "LParen")
      args == callArguments(c1, 0)
      c2 == consume(args.c, "RParen")
  IN IF c1.thrown THEN c1 ELSE IF args.c.thrown THEN args.c ELSE IF c2.thrown THEN c2
     ELSE emit(c2, <<Op("Call"), RNum(args.n)>>)

\* The element loop of list.
RECURSIVE listElements(_, _)
listElements(c, len) ==
  IF This(c).current.type = "RSquare" THEN [c |-> c, n |-> len]
  ELSE LET c1 == expression(emitConstant(c, RStr(toString(len))), PrecAssignment)
       IN IF c1.thrown THEN [c |-> c1, n |-> len]
          ELSE IF This(c1).current.type = "Comma"
          THEN listElements(consume(c1, "Comma"), len + 1)
          ELSE [c |-> c1, n |-> len + 1]

list(c) ==
  LET els == listElements(c, 0)
      c1 == consume(els.c, "RSquare")
  IN IF els.c.thrown THEN els.c ELSE IF c1.thrown THEN c1
     ELSE emit(c1, <<Op("CreateHT"), RNum(els.n)>>)

\* The pair loop of hashTable.
RECURSIVE hashTablePairs(_, _)
hashTablePairs(c, len) ==
  IF This(c).current.type = "RCurly" THEN [c |-> c, n |-> len]
  ELSE LET c1 == consume(c, "String")
           name == This(c1).previous.value
           c2 == consume(c1, "Colon")
           c3 == expression(emitConstant(c2, RStr(name)), PrecAssignment)
       IN IF c1.thrown THEN [c |-> c1, n |-> len]
          ELSE IF c2.thrown THEN [c |-> c2, n |-> len]
          ELSE IF c3.thrown THEN [c |-> c3, n |-> len]
          ELSE IF This(c3).current.type = "Comma"
          THEN hashTablePairs(consume(c3, "Comma"), len + 1)
          ELSE [c |-> c3, n |-> len + 1]

hashTable(c) ==
  LET prs == hashTablePairs(c, 0)
      c1 == consume(prs.c, "RCurly")
  IN IF prs.c.thrown THEN prs.c ELSE IF c1.thrown THEN c1
     ELSE emit(c1, <<Op("CreateHT"), RNum(prs.n)>>)

prefixFn(name, c) ==
  CASE name = "number" -> number(c)
    [] name = "identifier" -> identifier(c)
    [] name = "literal" -> literal(c)
    [] name = "list" -> list(c)
    [] name = "hashTable" -> hashTable(c)
    [] name = "unary" -> unary(c)
    [] name = "functionDeclaration" -> functionDeclaration(c, TRUE)
    [] name = "grouping" -> grouping(c)

infixFn(name, c) ==
  CASE name = "subscript" -> subscript(c)
    [] name = "binary" -> binary(c)
    [] name = "functionCall" -> functionCall(c)

\* The infix loop of expression.
RECURSIVE infixLoop(_, _)
infixLoop(c, precedence) ==
  LET infix == getRule(This(c).current.type)
      again(c1) == IF c1.thrown THEN c1 ELSE infixLoop(c1, precedence)
  IN IF precedence <= infix.prec
     THEN IF infix.infixFn # "" THEN again(infixFn(infix.infixFn, c))
          ELSE fatal(c, "unexpected operator")
     ELSE c

expressionBody(c, precedence) ==
  LET prefix == getRule(This(c).current.type)
      infixes(c1) == IF c1.thrown THEN c1 ELSE infixLoop(c1, precedence)
  IN IF prefix.prefixFn = "" THEN fatal(c, "unexpected")
     ELSE infixes(prefixFn(prefix.prefixFn, advance(c)))


varStatement(c) ==
  LET c1 == consume(c, "Identifier")
      name == This(c1).previous
      c2 == IF This(c1).current.type = "Equal"
            THEN expression(consume(c1, "Equal"), PrecAssignment)
            ELSE emit(c1, <<Op("Null")>>)
  IN IF c1.thrown THEN c1 ELSE IF c2.thrown THEN c2
     ELSE declareVariable(c2, name.value)

\* The operand emitted for a jump that is patched later.
Placeholder == 999

\* this.output[at] = dest, `at` a 0-based offset.
patch(c, at, dest) == SetThis(c, [This(c) EXCEPT !.output[at + 1] = RNum(dest)])

\* emit returns the 0-based offset of the last element written.
lastOffset(c) == Len(This(c).output) - 1

whileStatement(c) ==
  LET c1 == consume(c, "While")
      startPos == Len(This(c1).output)
      c2 == expression(c1, PrecAssignment)
      c3 == consume(c2, "Do")
      c4 == emit(c3, <<Op("JumpIfFalse"), RNum(Placeholder)>>)
      endJump == lastOffset(c4)
      c5 == block(c4, {"End"})
      c6 == consume(c5, "End")
      c7 == emit(c6, <<Op("Jump"), RNum(startPos)>>)
  IN IF c1.thrown THEN c1 ELSE IF c2.thrown THEN c2 ELSE IF c3.thrown THEN c3
     ELSE IF c5.thrown THEN c5 ELSE IF c6.thrown THEN c6
     ELSE patch(c7, endJump, Len(This(c7).output))

ifStatementBody(c) ==
  LET c1 == expression(c, PrecAssignment)
      c2 == consume(c1, "Then")
      c3 == emit(c2, <<Op("JumpIfFalse"), RNum(Placeholder)>>)
      thenJump == lastOffset(c3)
      c4 == block(c3, {"Else", "ElseIf", "End"})
      c5 == emit(c4, <<Op("Jump"), RNum(Placeholder)>>)
      elseJump == lastOffset(c5)
      c6 == patch(c5, thenJump, elseJump + 1)
  IN IF c1.thrown THEN c1 ELSE IF c2.thrown THEN c2 ELSE IF c4.thrown THEN c4
     ELSE IF This(c4).current.type = "ElseIf"
     THEN LET c7 == ifStatement(consume(c6, "ElseIf"))
          IN IF c7.thrown THEN c7 ELSE patch(c7, elseJump, Len(This(c7).output))
     ELSE IF This(c4).current.type = "Else"
     THEN LET c7 == block(consume(c6, "Else"), {"End"})
              c8 == consume(c7, "End")
          IN IF c7.thrown THEN c7 ELSE IF c8.thrown THEN c8
             ELSE patch(c8, elseJump, Len(This(c8).output))
     ELSE consume(patch(c4, thenJump, Len(This(c4).output)), "End")

\* Operands after Closure with the index of each upvalue only.
RECURSIVE upvalueOperandsIndexOnly(_)
upvalueOperandsIndexOnly(ups) ==
  IF Len(ups) = 0 THEN <<>>
  ELSE <<RNum(ups[1].index)>> \o upvalueOperandsIndexOnly(Tail(ups))

\* The (isLocal, index) pairs emitted after Closure.
RECURSIVE upvalueOperands(_)
upvalueOperands(ups) ==
  IF Len(ups) = 0 THEN <<>>
  ELSE <<RNum(IF ups[1].isLocal THEN 1 ELSE 0), RNum(ups[1].index)>>
         \o upvalueOperands(Tail(ups))

\* The name of a function expression is func_expr_<line>; lines are not
\* modelled, so every function expression has the one name.
functionDeclarationBody(c, isExpression) ==
  LET named == This(c).current.type = "Identifier"
      c1 == IF named THEN consume(c, "Identifier") ELSE c
      name == IF named THEN This(c1).previous.value ELSE "func_expr"
      \* new Compiler(this)
      c2 == [c1 EXCEPT !.comps = Append(@, NewCompiler(This(c1).current, This(c1).previous))]
      c3 == compileFunction(c2)
      fnCompiler == This(c3)
      \* back in the enclosing compiler, with the nested compiler's cursor
      c4 == [c3 EXCEPT !.comps = SubSeq(@, 1, Len(@) - 1)]
      c5 == SetThis(c4, [This(c4) EXCEPT !.current = fnCompiler.current,
                                         !.previous = fnCompiler.previous])
      c6 == consume(c5, "End")
      fnValue == createFunctionValue(name, fnCompiler.arity, fnCompiler.output,
                                     Len(fnCompiler.upvalues))
      c7 == [c6 EXCEPT !.fns = Append(@, fnValue)]
      c8 == emit(c7, <<Op("Closure"), RFn(Len(c7.fns))>>
                       \o upvalueOperands(fnCompiler.upvalues))
  IN IF ~named /\ ~isExpression THEN fatal(c, "expected a function name")
     ELSE IF c3.thrown THEN c3 ELSE IF c6.thrown THEN c6
     ELSE IF ~isExpression THEN declareVariable(c8, name) ELSE c8

\* Advance to a statement-start keyword, or past a do/then.
RECURSIVE synchronise(_)
synchronise(c) ==
  LET type == This(c).current.type
  IN IF type = "EOF" THEN c
     ELSE IF type \in {"Var", "While", "If", "Function", "Return"} THEN c
     ELSE IF type \in {"Do", "Then"} THEN advance(c)
     ELSE synchronise(advance(c))

\* The catch of statement(): the exception unwinds to the compiler that
\* runs the statement (a nested compiler it passed through is dropped), which
\* records the error, logs it and synchronises.
catch(c, depth) ==
  LET c1 == [c EXCEPT !.comps = SubSeq(@, 1, depth), !.thrown = FALSE,
                      !.logged = @ + 1]
      synced(c2) ==
        [c2 EXCEPT !.syncs = Append(@, [raisedAt |-> Cursor(c),
                                        stoppedAt |-> Cursor(c2),
                                        previous |-> This(c2).previous.type])]
  IN synced(synchronise(SetThis(c1, [This(c1) EXCEPT !.hadError = TRUE])))

statementBody(c) ==
  LET type == This(c).current.type
      return(c1) == IF c1.thrown THEN c1 ELSE emit(c1, <<Op("Return"), RNum(1)>>)
      try ==
        CASE type = "Var" -> varStatement(consume(c, "Var"))
          [] type = "While" -> whileStatement(c)
          [] type = "If" -> ifStatement(consume(c, "If"))
          [] type = "Function" -> functionDeclaration(consume(c, "Function"), FALSE)
          [] type = "Return" -> return(expression(consume(c, "Return"), PrecAssignment))
          [] OTHER -> expression(c, PrecAssignment)
      caught(c1) == IF c1.thrown THEN catch(c1, Len(c.comps)) ELSE c1
      seen(c1) ==
        IF This(c).scopeDepth # 0 THEN c1
        ELSE [c1 EXCEPT !.stmts = Append(@, [type |-> type,
                                              from |-> Len(This(c).output),
                                              to |-> Len(This(c1).output)])]
      called(c1) ==
        [c1 EXCEPT !.calls = Append(@, [type |-> type, began |-> Cursor(c),
                                        ended |-> Cursor(c1)])]
  IN called(seen(caught(try)))

\* while (!endings.includes(current.type) && current.type !== EOF) statement()
RECURSIVE statements(_, _)
statements(c, endings) ==
  IF This(c).current.type \in endings \cup {"EOF"} THEN c
  ELSE statements(statement(c), endings)

blockBody(c, endings) ==
  LET ended(c1, c2) ==
        [c2 EXCEPT !.scopes =
           Append(@, [atBegin |-> This(c).localCount,
                      declared |-> This(c1).localCount - This(c).localCount,
                      pops |-> Len(This(c2).output) - Len(This(c1).output),
                      atEnd |-> This(c2).localCount])]
      end(c1) == ended(c1, endScope(c1))
  IN end(statements(beginScope(c), endings))

\* The parameter loop of compileFunction: the state and the arity counted.
RECURSIVE parameters(_, _)
parameters(c, arity) ==
  IF This(c).current.type = "RParen" THEN [c |-> c, n |-> arity]
  ELSE LET c1 == consume(c, "Identifier")
           c2 == SetThis(c1, addLocal(This(c1), This(c1).previous.value))
       IN IF c1.thrown THEN [c |-> c1, n |-> arity]
          ELSE IF This(c2).current.type = "Comma"
          THEN parameters(consume(c2, "Comma"), arity + 1)
          ELSE parameters(c2, arity + 1)

\* compileFunction on the nested compiler `this`; the result's program is
\* This(result).output and its arity This(result).arity.
compileFunctionBody(c) ==
  LET c1 == SetThis(c, [This(c) EXCEPT !.scopeDepth = 1, !.localCount = 1])
      c2 == consume(c1, "LParen")
      params == parameters(beginScope(c2), 0)
      c3 == consume(params.c, "RParen")
      c4 == statements(c3, {"End"})
      ended(c5, c6) ==
        [c6 EXCEPT !.scopes =
           Append(@, [atBegin |-> This(c1).localCount,
                      declared |-> This(c5).localCount - This(c1).localCount,
                      pops |-> Len(This(c6).output) - Len(This(c5).output),
                      atEnd |-> This(c6).localCount]),
                   !.comps[Len(c6.comps)].arity = params.n]
      end(c5) == ended(c5, endScope(c5))
  IN IF c2.thrown THEN c2 ELSE IF params.c.thrown THEN params.c
     ELSE IF c3.thrown THEN c3
     ELSE end(emit(c4, <<Op("Return"), RNum(0)>>))

Method(name, c, arg) ==
  CASE name = "expression" -> expressionBody(c, arg)
    [] name = "statement" -> statementBody(c)
    [] name = "block" -> blockBody(c, arg)
    [] name = "ifStatement" -> ifStatementBody(c)
    [] name = "functionDeclaration" -> functionDeclarationBody(c, arg)
    [] name = "compileFunction" -> compileFunctionBody(c)

\* compile(code): the state after the last statement, Halt and EOF; compile
\* throws when hadError is set and returns output otherwise.
compileState(toks) ==
  LET c1 == statements(advance(NewState(toks)), {})
  IN consume(emit(c1, <<Op("Halt")>>), "EOF")

\* compile(code) on a Compiler object that has compiled before: output is
\* emptied and the lexer is new, every other field is as the last call left
\* it.  fns are the function objects that exist already.
compileStateOn(compiler, fns, toks) ==
  LET c1 == statements(advance(StateOf([compiler EXCEPT !.output = <<>>], fns, toks)), {})
  IN consume(emit(c1, <<Op("Halt")>>), "EOF")

compileThrows(c) == c.thrown \/ This(c).hadError

\* What a call of compile leaves: whether it returned, the program, and the
\* Compiler object as it is after the call.
compileResult(c, toks) ==
  [ok |-> ~compileThrows(c), program |-> This(c).output, fns |-> c.fns,
   logged |-> c.logged, resolved |-> c.resolved,
   stmts |-> c.stmts, scopes |-> c.scopes, toks |-> toks, calls |-> c.calls,
   syncs |-> c.syncs, compiler |-> This(c)]

compile(toks) == compileResult(compileState(toks), toks)

compileOn(compiler, fns, toks) == compileResult(compileStateOn(compiler, fns, toks), toks)


\* ------------------------------------------------------- virtual machine

VARIABLES
  lines,     \* the number of lines the read-eval-print loop has read
  lexer,     \* the Lexer object
  source,    \* the program text given to compile: an index into Sources
  compiled,  \* what compile returned: [ok, program, fns, logged]
  vm         \* the ElyVm object

vars == <<lines, lexer, source, compiled, vm>>

\* The arity of a variadic native (Infinity in the source).
Variadic == 0 - 1

\* The program a code reference stands for: 0 is the top-level program,
\* i > 0 the body of function object i.
Program(id) == IF id = 0 THEN compiled.program ELSE compiled.fns[id].value

RUndefined == [k |-> "undefined", s |-> "", n |-> 0, b |-> FALSE]

\* this.code[offset], offsets counted from 0.
RawAt(m, offset) ==
  LET p == Program(m.code)
  IN IF offset >= 0 /\ offset < Len(p) THEN p[offset + 1] ELSE RUndefined

\* this.stack[index], indices counted from 0.
StackAt(m, index) ==
  IF index >= 0 /\ index < Len(m.stack) THEN m.stack[index + 1] ELSE Undefined

\* this.stack[index] = value: JavaScript grows the array when index is at
\* or beyond its length, leaving holes that read as undefined.
RECURSIVE Holes(_)
Holes(n) == IF n <= 0 THEN <<>> ELSE <<Undefined>> \o Holes(n - 1)
StackSet(stack, index, value) ==
  IF index < Len(stack) THEN [stack EXCEPT ![index + 1] = value]
  ELSE stack \o Holes(index - Len(stack)) \o <<value>>

\* The VM's fatal(): a RuntimeError ends the run.
vmFatal(m, msg) == [m EXCEPT !.status = "fatal", !.error = msg]

\* A JavaScript TypeError (a property of undefined): the run ends outside
\* the VM's fatal path.
typeError(m) == [m EXCEPT !.status = "crashed", !.error = "TypeError"]

Failed(m) == m.status # "running"

push(m, val) == [m EXCEPT !.stack = Append(@, val)]

\* pop(): the machine after the pop; the value popped is peek(m, 0).
pop(m) ==
  IF Len(m.stack) = 0 THEN vmFatal(m, "tried to pop an empty stack")
  ELSE [m EXCEPT !.stack = SubSeq(@, 1, Len(@) - 1)]

peek(m, num) == StackAt(m, Len(m.stack) - num - 1)

\* The machine with the program counter moved past n elements read.
skip(m, n) == [m EXCEPT !.programCounter = @ + n]

frame(m) == m.callStack[Len(m.callStack)]

\* Truthiness that takes any value that is not a Bool, a Number or a
\* String for true.
valueIsTruthyByDefault(val) ==
  CASE val.type = "Bool" -> val.b
    [] val.type = "Number" -> val.n # 0
    [] val.type = "String" -> val.s # ""
    [] OTHER -> TRUE

valueIsTruthy(val) ==
  CASE val.type = "Bool" -> val.b
    [] val.type = "Number" -> val.n # 0
    [] val.type = "String" -> val.s # ""
    [] OTHER -> FALSE

jump(m, dest) ==
  IF dest.k # "num" THEN vmFatal(m, "didn't get a number when attempting to jump")
  ELSE IF Len(Program(m.code)) <= dest.n
  THEN vmFatal(m, "attempted to jump beyond the end of the program")
  ELSE [m EXCEPT !.programCounter = dest.n]

\* captureUpValue(index): a new open upvalue object {stackSlot: index},
\* pushed on openUpvalues; the result is the machine, the new object being
\* the last of its heap.
captureUpValue(m, index) ==
  LET upValue == [stackSlot |-> index, closed |-> Undefined]
      m1 == [m EXCEPT !.heap = Append(@, upValue)]
  IN [m1 EXCEPT !.openUpvalues = Append(@, Len(m1.heap))]

\* closeUpvalues(): every upvalue of openUpvalues that has no closed value
\* gets stack[frame.stackBase + stackSlot].
RECURSIVE closeFrom(_, _, _)
closeFrom(m, stackBase, i) ==
  IF i > Len(m.openUpvalues) THEN m
  ELSE LET u == m.openUpvalues[i]
       IN IF m.heap[u].closed.type = "undefined"
          THEN closeFrom([m EXCEPT !.heap[u].closed =
                                     StackAt(m, stackBase + m.heap[u].stackSlot)],
                         stackBase, i + 1)
          ELSE closeFrom(m, stackBase, i + 1)

closeUpvalues(m) ==
  IF \A i \in 1..Len(m.openUpvalues) : m.heap[m.openUpvalues[i]].closed.type # "undefined"
  THEN m
  ELSE IF Len(m.callStack) = 0 THEN typeError(m)
  ELSE closeFrom(m, frame(m).stackBase, 1)


\* The operand that follows the opcode at the program counter.
Operand(m, i) == RawAt(m, m.programCounter + i)

VHashTable(id) == [type |-> "HashTable", n |-> id, s |-> "", b |-> FALSE]

\* ---- the cases of run()'s switch, each from the machine whose program
\* ---- counter is at the opcode to the machine after the case.

OpHalt(m) ==
  IF Len(m.stack) > 0
  THEN [pop(skip(m, 1)) EXCEPT !.status = "halted", !.result = peek(m, 0)]
  ELSE [skip(m, 1) EXCEPT !.status = "halted"]

\* A plain JavaScript object ({}), as globals and a hash table's value
\* are: `name in object` is true of a name set in it and of every property
\* it inherits from Object.prototype, and object[name] is the value set, the
\* inherited JavaScript function (which is no Value), or undefined.
inObject(object, name) ==
  name \in DOMAIN object
            \cup {"constructor", "hasOwnProperty", "isPrototypeOf",
                  "propertyIsEnumerable", "toLocaleString", "toString", "valueOf"}

propertyAt(object, name) ==
  IF name \in DOMAIN object THEN object[name]
  ELSE IF inObject(object, name)
  THEN [type |-> "JsFunction", n |-> 0, s |-> name, b |-> FALSE]
  ELSE Undefined

OpGetGlobal(m) ==
  LET name == Operand(m, 1)
      m1 == skip(m, 2)
  IN IF name.k # "str" THEN vmFatal(m1, "got non string as global name")
     ELSE IF ~inObject(m.globals, name.s)
     THEN vmFatal(m1, "attempted to get unknown global")
     ELSE push(m1, propertyAt(m.globals, name.s))

OpPushImmediate(m) ==
  IF Operand(m, 1).k = "undefined" THEN typeError(skip(m, 2))
  ELSE push(skip(m, 2), createValue(Operand(m, 1)))

OpNull(m) == push(skip(m, 1), createNullValue)

OpPop(m) == pop(skip(m, 1))

OpDefineGlobal(m) ==
  LET name == Operand(m, 1)
      m1 == skip(m, 2)
      m2 == pop(m1)
  IN IF name.k # "str" THEN vmFatal(m1, "got non string as global name")
     ELSE IF inObject(m.globals, name.s)
     THEN vmFatal(m1, "attempted to redefine global")
     ELSE IF Failed(m2) THEN m2
     ELSE IF peek(m1, 0).type = "undefined"
     THEN vmFatal(m2, "empty when assigning a global")
     ELSE [m2 EXCEPT !.globals = (name.s :> peek(m1, 0)) @@ @]

OpSetGlobal(m) ==
  LET name == Operand(m, 1)
      m1 == skip(m, 2)
      m2 == pop(m1)
  IN IF name.k # "str" THEN vmFatal(m1, "got non string as global name")
     ELSE IF ~inObject(m.globals, name.s)
     THEN vmFatal(m1, "attempted to set unknown global")
     ELSE IF Failed(m2) THEN m2
     ELSE IF peek(m1, 0).type = "undefined"
     THEN vmFatal(m2, "empty when assigning a global")
     ELSE [m2 EXCEPT !.globals = (name.s :> peek(m1, 0)) @@ @]

OpGetLocal(m) ==
  LET index == Operand(m, 1)
      m1 == skip(m, 2)
      stackBase == IF Len(m.callStack) > 0 THEN frame(m).stackBase ELSE 0
  IN IF index.k # "num"
     THEN vmFatal(m1, "expected a number as a local variable index")
     ELSE push(m1, StackAt(m, index.n + stackBase))

\* SetLocal writes this.stack[index]: the frame's stackBase is not added.
OpSetLocal(m) ==
  LET index == Operand(m, 1)
      m1 == skip(m, 2)
      m2 == pop(m1)
  IN IF index.k # "num"
     THEN vmFatal(m1, "expected a number as a local variable index")
     ELSE IF Failed(m2) THEN m2
     ELSE IF peek(m1, 0).type = "undefined"
     THEN vmFatal(m2, "attempted to set a variable with no value")
     ELSE [m2 EXCEPT !.stack = StackSet(@, index.n, peek(m1, 0))]

\* The loop of CreateHT: pop value, pop name, set, count.
RECURSIVE createPairs(_, _, _)
createPairs(m, ht, i) ==
  IF i < 0 THEN [m |-> m, ht |-> ht]
  ELSE LET value == peek(m, 0)
           m1 == pop(m)
           name == peek(m1, 0)
           m2 == pop(m1)
       IN IF Failed(m1) THEN [m |-> m1, ht |-> ht]
          ELSE IF Failed(m2) THEN [m |-> m2, ht |-> ht]
          ELSE IF name.type = "undefined" \/ value.type = "undefined"
          THEN [m |-> vmFatal(m2, "missing key/value pair when creating a list"), ht |-> ht]
          ELSE IF name.type # "String"
          THEN [m |-> vmFatal(m2, "expected a string as a hash table key"), ht |-> ht]
          ELSE createPairs(m2, [value |-> (name.s :> value) @@ ht.value,
                                length |-> ht.length + 1], i - 1)

createHashTableValue == [value |-> NoVariables, length |-> 0]

OpCreateHT(m) ==
  LET len == Operand(m, 1)
      m1 == skip(m, 2)
      r == createPairs(m1, createHashTableValue, len.n - 1)
      m2 == [r.m EXCEPT !.tables = Append(@, r.ht)]
  IN IF len.k # "num" THEN vmFatal(m1, "expected a number as hash table length")
     ELSE IF Failed(r.m) THEN r.m
     ELSE push(m2, VHashTable(Len(m2.tables)))

\* GetHT that looks a key up by its string value only.
OpGetHTUncoerced(m) ==
  LET m1 == skip(m, 1)
      key == peek(m1, 0)
      ht == peek(pop(m1), 0)
  IN IF Len(m.stack) < 2 \/ key.type \notin {"Number", "String"} \/ ht.type # "HashTable"
     THEN vmFatal(m1, "expected a hash table")
     ELSE push(pop(pop(m1)), propertyAt(m.tables[ht.n].value, key.s))

\* ht.value[key.value]: a numeric key is coerced to its string form.
OpGetHT(m) ==
  LET m1 == skip(m, 1)
      key == peek(m1, 0)
      m2 == pop(m1)
      ht == peek(m2, 0)
      m3 == pop(m2)
      name == IF key.type = "Number" THEN toString(key.n) ELSE key.s
      table == m.tables[ht.n].value
  IN IF Failed(m2) THEN m2
     ELSE IF key.type \notin {"Number", "String"}
     THEN vmFatal(m2, "expected a string or number as an object index")
     ELSE IF Failed(m3) THEN m3
     ELSE IF ht.type # "HashTable" THEN vmFatal(m3, "expected a hash table")
     ELSE push(m3, propertyAt(table, name))

\* frame.closure.upValues[index]: 0 when the array has no such element.
upValueAt(m, closure, index) ==
  IF index >= 0 /\ index < Len(m.upValues[closure])
  THEN m.upValues[closure][index + 1] ELSE 0

OpGetUpvalue(m) ==
  LET index == Operand(m, 1)
      m1 == skip(m, 2)
      upvalue == upValueAt(m, frame(m).closure, index.n)
  IN IF index.k # "num" THEN vmFatal(m1, "expected a number as an upvalue index")
     ELSE IF Len(m.callStack) = 0 THEN typeError(m1)
     ELSE IF upvalue = 0 THEN typeError(m1)
     ELSE IF m.heap[upvalue].closed.type # "undefined"
     THEN push(m1, m.heap[upvalue].closed)
     ELSE push(m1, StackAt(m, m.heap[upvalue].stackSlot))

\* The loop of Closure over the fn.upValueCount descriptor pairs; the
\* program counter of m is at the pair to read.
RECURSIVE readUpvalues(_, _, _)
readUpvalues(m, fn, i) ==
  IF i >= compiled.fns[fn].upValueCount THEN m
  ELSE LET isLocal == Operand(m, 0)
           index == Operand(m, 1)
           m1 == skip(m, 2)
           m2 == captureUpValue(m1, index.n)
       IN IF isLocal.k # "num" THEN vmFatal(skip(m, 1), "isLocal")
          ELSE IF index.k # "num" THEN vmFatal(m1, "index")
          ELSE IF isLocal.n # 0
          THEN readUpvalues([m2 EXCEPT !.upValues[fn] = Append(@, Len(m2.heap))],
                            fn, i + 1)
          ELSE IF Len(m.callStack) = 0 THEN typeError(m1)
          ELSE readUpvalues([m1 EXCEPT !.upValues[fn] =
                                         Append(@, upValueAt(m1, frame(m1).closure, index.n))],
                            fn, i + 1)

OpClosure(m) ==
  LET fn == Operand(m, 1)
      m1 == readUpvalues(skip(m, 2), fn.n, 0)
  IN IF fn.k # "fn" THEN vmFatal(skip(m, 2), "expected a function as an arg to closure")
     ELSE IF Failed(m1) THEN m1
     ELSE push(m1, VFunction(fn.n))


\* popTwoNumbers / popTwoBools: arg1 is the value popped first (the top).
popTwo(m, type, msg) ==
  LET arg1 == peek(m, 0)
      m1 == pop(m)
      arg2 == peek(m1, 0)
      m2 == pop(m1)
  IN IF Failed(m1) THEN [m |-> m1, arg1 |-> arg1, arg2 |-> arg2]
     ELSE IF Failed(m2) THEN [m |-> m2, arg1 |-> arg1, arg2 |-> arg2]
     ELSE IF arg1.type = "undefined" \/ arg2.type = "undefined"
     THEN [m |-> vmFatal(m2, "expected two arguments"), arg1 |-> arg1, arg2 |-> arg2]
     ELSE IF arg1.type = type /\ arg2.type = type
     THEN [m |-> m2, arg1 |-> arg1, arg2 |-> arg2]
     ELSE [m |-> vmFatal(m2, msg), arg1 |-> arg1, arg2 |-> arg2]

popTwoNumbers(m) == popTwo(m, "Number", "expected two numbers")
popTwoBools(m) == popTwo(m, "Bool", "expected two bools")

\* val.value.toString() for the values Add and str stringify.
valueToStringValue(val) ==
  CASE val.type = "Number" -> toString(val.n)
    [] val.type = "String" -> val.s
    [] val.type = "Bool" -> IF val.b THEN "true" ELSE "false"
    [] OTHER -> "[object]"

OpAdd(m) ==
  LET m0 == skip(m, 1)
      arg1 == peek(m0, 0)
      m1 == pop(m0)
      arg2 == peek(m1, 0)
      m2 == pop(m1)
  IN IF Failed(m1) THEN m1 ELSE IF Failed(m2) THEN m2
     ELSE IF arg1.type = "undefined" \/ arg2.type = "undefined"
     THEN vmFatal(m2, "not enough arguments given to add")
     ELSE IF arg1.type = "String" /\ arg2.type = "String"
     THEN push(m2, VString(arg2.s \o arg1.s))
     ELSE IF arg1.type = "Number" /\ arg2.type = "Number"
     THEN push(m2, VNumber(arg2.n + arg1.n))
     ELSE IF \/ arg1.type = "String" /\ arg2.type = "Number"
             \/ arg1.type = "Number" /\ arg2.type = "String"
     THEN push(m2, VString(valueToStringValue(arg2) \o valueToStringValue(arg1)))
     ELSE vmFatal(m2, "mismatched types for add")

OpGreater(m) ==
  LET r == popTwoNumbers(skip(m, 1))
  IN IF Failed(r.m) THEN r.m ELSE push(r.m, VBool(r.arg2.n > r.arg1.n))

OpLess(m) ==
  LET r == popTwoNumbers(skip(m, 1))
  IN IF Failed(r.m) THEN r.m ELSE push(r.m, VBool(r.arg2.n < r.arg1.n))

OpMultiply(m) ==
  LET r == popTwoNumbers(skip(m, 1))
  IN IF Failed(r.m) THEN r.m ELSE push(r.m, VNumber(r.arg2.n * r.arg1.n))

\* Numbers are integers here: a quotient that is not one (or a division by
\* zero, Infinity or NaN in the source) leaves the modelled values.
OpDivide(m) ==
  LET r == popTwoNumbers(skip(m, 1))
  IN IF Failed(r.m) THEN r.m
     ELSE IF r.arg1.n = 0 \/ r.arg2.n % r.arg1.n # 0
     THEN [r.m EXCEPT !.status = "unmodelled", !.error = "non-integer quotient"]
     ELSE push(r.m, VNumber(r.arg2.n \div r.arg1.n))

OpNot(m) ==
  LET m0 == skip(m, 1)
      arg == peek(m0, 0)
      m1 == pop(m0)
  IN IF Failed(m1) THEN m1
     ELSE IF arg.type # "Bool"
     THEN vmFatal(m1, "expected a boolean as argument to not")
     ELSE push(m1, VBool(~arg.b))

\* arg2.value === arg1.value for two values of one type: by value for the
\* primitives, by object identity for functions and hash tables.
sameValue(a, b) ==
  CASE a.type = "Number" -> a.n = b.n
    [] a.type = "String" -> a.s = b.s
    [] a.type = "Bool" -> a.b = b.b
    [] a.type = "Null" -> TRUE
    [] a.type = "NativeFunction" -> a.s = b.s
    [] OTHER -> a.n = b.n

OpEqual(m) ==
  LET m0 == skip(m, 1)
      arg1 == peek(m0, 0)
      m1 == pop(m0)
      arg2 == peek(m1, 0)
      m2 == pop(m1)
  IN IF Failed(m1) THEN m1 ELSE IF Failed(m2) THEN m2
     ELSE IF arg1.type = "undefined" \/ arg2.type = "undefined"
     THEN vmFatal(m2, "not enough arguments given to equal")
     ELSE IF arg1.type = arg2.type THEN push(m2, VBool(sameValue(arg2, arg1)))
     ELSE vmFatal(m2, "mismatched types for equal")

OpAnd(m) ==
  LET r == popTwoBools(skip(m, 1))
  IN IF Failed(r.m) THEN r.m ELSE push(r.m, VBool(r.arg1.b /\ r.arg2.b))

OpOr(m) ==
  LET r == popTwoBools(skip(m, 1))
  IN IF Failed(r.m) THEN r.m ELSE push(r.m, VBool(r.arg1.b \/ r.arg2.b))

\* Sub with the operands exchanged: arg1 - arg2.
OpSubExchanged(m) ==
  LET r == popTwo(skip(m, 1), "Number", "non-numbers used in sub")
  IN IF Failed(r.m) THEN r.m ELSE push(r.m, VNumber(r.arg1.n - r.arg2.n))

OpSub(m) ==
  LET m0 == skip(m, 1)
      arg1 == peek(m0, 0)
      m1 == pop(m0)
      arg2 == peek(m1, 0)
      m2 == pop(m1)
  IN IF Failed(m1) THEN m1 ELSE IF Failed(m2) THEN m2
     ELSE IF arg1.type # "Number" \/ arg2.type # "Number"
     THEN vmFatal(m2, "non-numbers used in sub")
     ELSE push(m2, VNumber(arg2.n - arg1.n))

\* The arguments popped argCount times and pushed on args: the last
\* argument first.
RECURSIVE popArgsReversed(_, _, _)
popArgsReversed(m, args, i) ==
  IF i = 0 THEN [m |-> m, args |-> args]
  ELSE LET m1 == pop(m)
       IN IF Failed(m1) THEN [m |-> m1, args |-> args]
          ELSE popArgsReversed(m1, Append(args, peek(m, 0)), i - 1)

\* The arguments of a native call, popped argCount times and unshifted:
\* args is in source order.
RECURSIVE popArgs(_, _, _)
popArgs(m, args, i) ==
  IF i = 0 THEN [m |-> m, args |-> args]
  ELSE LET m1 == pop(m)
       IN IF Failed(m1) THEN [m |-> m1, args |-> args]
          ELSE popArgs(m1, <<peek(m, 0)>> \o args, i - 1)

\* The runtime library: the result of the host function, Undefined when it
\* returns nothing, and whether it throws.  `line` is what read_line reads.
nativeResult(name, args, tables, line) ==
  CASE name = "print" -> [throws |-> FALSE, value |-> Undefined]
    [] name = "read_line" -> [throws |-> FALSE, value |-> VString(line)]
    [] name = "str" ->
         IF args[1].type \in {"Null", "undefined"}
         THEN [throws |-> TRUE, value |-> Undefined]
         ELSE [throws |-> FALSE, value |-> VString(valueToStringValue(args[1]))]
    [] name = "len" ->
         IF args[1].type # "HashTable" THEN [throws |-> TRUE, value |-> Undefined]
         ELSE [throws |-> FALSE, value |-> VNumber(tables[args[1].n].length)]

addRuntimeApi ==
  [name \in {"print", "read_line", "str", "len"} |->
     VNative(name, CASE name = "print" -> Variadic
                     [] name = "read_line" -> 0
                     [] OTHER -> 1)]

OpCallNative(m, line) ==
  LET argCount == Operand(m, 1)
      m1 == skip(m, 2)
      func == peek(m1, argCount.n)
      r == popArgs(m1, <<>>, argCount.n)
      result == nativeResult(func.s, r.args, m.tables, line)
      m2 == IF func.s = "print" THEN [r.m EXCEPT !.out = Append(@, r.args)] ELSE r.m
      m3 == pop(m2)
  IN IF Failed(r.m) THEN r.m
     ELSE IF func.n # Variadic /\ argCount.n # func.n
     THEN vmFatal(r.m, "expected arguments")
     ELSE IF result.throws THEN [r.m EXCEPT !.status = "crashed", !.error = "Error"]
     ELSE IF Failed(m3) THEN m3
     ELSE IF result.value.type # "undefined" THEN push(m3, result.value)
     ELSE m3

\* Call on the asynchronous native with the callee popped before the await.
OpCallAsyncPopsCallee(m) ==
  LET argCount == Operand(m, 1)
      m1 == skip(m, 2)
      func == peek(m1, argCount.n)
      r == popArgs(m1, <<>>, argCount.n)
  IN IF Failed(r.m) THEN r.m
     ELSE IF func.n # Variadic /\ argCount.n # func.n
     THEN vmFatal(r.m, "expected arguments")
     ELSE IF Failed(pop(r.m)) THEN pop(r.m)
     ELSE [pop(r.m) EXCEPT !.status = "awaiting"]

\* Call on read_line as far as `await func.value.apply(func.value, args)`:
\* the arguments are popped and counted, the host function is started and
\* run() is suspended until its promise settles.
OpCallAsync(m) ==
  LET argCount == Operand(m, 1)
      m1 == skip(m, 2)
      func == peek(m1, argCount.n)
      r == popArgs(m1, <<>>, argCount.n)
  IN IF Failed(r.m) THEN r.m
     ELSE IF func.n # Variadic /\ argCount.n # func.n
     THEN vmFatal(r.m, "expected arguments")
     ELSE [r.m EXCEPT !.status = "awaiting"]

\* The promise settles with the line read: run() resumes after the await,
\* pops the function and pushes the result.
OpResume(m, line) ==
  LET result == nativeResult("read_line", <<>>, m.tables, line)
      m3 == pop([m EXCEPT !.status = "running"])
  IN IF Failed(m3) THEN m3
     ELSE IF result.value.type # "undefined" THEN push(m3, result.value)
     ELSE m3

\* Call on a Function with the frame's stackBase above the callee.
OpCallFunctionBaseAboveCallee(m) ==
  LET argCount == Operand(m, 1)
      m1 == skip(m, 2)
      func == peek(m1, argCount.n)
  IN [m1 EXCEPT !.callStack = Append(@, [name |-> compiled.fns[func.n].name,
                                         callingCode |-> m1.code,
                                         callingProgramCounter |-> m1.programCounter,
                                         stackBase |-> Len(m1.stack) - argCount.n,
                                         closure |-> func.n,
                                         returnValue |-> Undefined]),
                 !.code = func.n,
                 !.programCounter = 0]

\* Call on a Function: push the frame and run func.value from offset 0.
OpCallFunction(m) ==
  LET argCount == Operand(m, 1)
      m1 == skip(m, 2)
      func == peek(m1, argCount.n)
  IN [m1 EXCEPT !.callStack = Append(@, [name |-> compiled.fns[func.n].name,
                                         callingCode |-> m1.code,
                                         callingProgramCounter |-> m1.programCounter,
                                         stackBase |-> Len(m1.stack) - argCount.n - 1,
                                         closure |-> func.n,
                                         returnValue |-> Undefined]),
                 !.code = func.n,
                 !.programCounter = 0]

\* Call on anything else.
OpCallOther(m) ==
  LET argCount == Operand(m, 1)
      m1 == skip(m, 2)
      func == peek(m1, argCount.n)
  IN IF argCount.k # "num"
     THEN vmFatal(m1, "expected number for function argument count")
     ELSE IF func.type = "undefined"
     THEN vmFatal(m1, "expection a function but got undefined")
     ELSE vmFatal(m1, "expected a function but got")

\* afterRun with the stack cut one element above the frame's stackBase, so
\* that the callee stays on the stack.
afterRunKeepsCallee(m) ==
  LET fr == frame(m)
      m1 == [m EXCEPT !.callStack = SubSeq(@, 1, Len(@) - 1),
                      !.stack = SubSeq(@, 1, IF fr.stackBase + 1 < Len(@)
                                             THEN fr.stackBase + 1 ELSE Len(@)),
                      !.code = fr.callingCode,
                      !.programCounter = fr.callingProgramCounter]
  IN IF fr.returnValue.type # "undefined" THEN push(m1, fr.returnValue) ELSE m1

\* What Call does once run(func.value) has returned: pop the frame, cut the
\* stack at its stackBase, restore the caller's code and program counter and
\* push the frame's return value when it has one.
afterRun(m) ==
  LET fr == frame(m)
      m1 == [m EXCEPT !.callStack = SubSeq(@, 1, Len(@) - 1),
                      !.stack = SubSeq(@, 1, IF fr.stackBase < Len(@) THEN fr.stackBase ELSE Len(@)),
                      !.code = fr.callingCode,
                      !.programCounter = fr.callingProgramCounter]
  IN IF fr.returnValue.type # "undefined" THEN push(m1, fr.returnValue) ELSE m1

\* Return inside a call: the case of the switch, which leaves the nested
\* run(), and then the rest of the caller's Call case.
OpReturn(m) ==
  LET numValues == Operand(m, 1)
      m1 == closeUpvalues(skip(m, 2))
      value == peek(m1, 0)
      m2 == pop(m1)
  IN IF numValues.k # "num" THEN vmFatal(skip(m, 2), "expected a number for return")
     ELSE IF Failed(m1) THEN m1
     ELSE IF numValues.n = 1
     THEN IF Failed(m2) THEN m2
          ELSE IF value.type = "undefined" THEN vmFatal(m2, "return with no value")
          ELSE afterRun([m2 EXCEPT !.callStack[Len(m2.callStack)].returnValue = value])
     ELSE afterRun(m1)

\* Return with no frame: run() itself returns; storing the return value in
\* the missing frame is a TypeError.
OpReturnTopLevel(m) ==
  LET numValues == Operand(m, 1)
      m1 == closeUpvalues(skip(m, 2))
      value == peek(m1, 0)
      m2 == pop(m1)
  IN IF numValues.k # "num" THEN vmFatal(skip(m, 2), "expected a number for return")
     ELSE IF Failed(m1) THEN m1
     ELSE IF numValues.n = 1
     THEN IF Failed(m2) THEN m2
          ELSE IF value.type = "undefined" THEN vmFatal(m2, "return with no value")
          ELSE typeError(m2)
     ELSE [m1 EXCEPT !.status = "returned"]

\* Jump that reads its operand and goes on with the next instruction.
OpJumpFallsThrough(m) == skip(m, 2)

OpJump(m) == jump(skip(m, 2), Operand(m, 1))

OpJumpIfFalse(m) ==
  LET dest == Operand(m, 1)
      m1 == skip(m, 2)
      value == peek(m1, 0)
      m2 == pop(m1)
  IN IF Failed(m2) THEN m2
     ELSE IF value.type # "undefined" /\ ~valueIsTruthy(value) THEN jump(m2, dest)
     ELSE m2

\* The default case: an opcode with no case in the switch.
OpUnknown(m) == vmFatal(skip(m, 1), "unknown opcode")


\* -------------------------------------------------------------- sources

tVar == Tok("Var")
tFunction == Tok("Function")
tReturn == Tok("Return")
tEnd == Tok("End")
tWhile == Tok("While")
tDo == Tok("Do")
tIf == Tok("If")
tThen == Tok("Then")
tElse == Tok("Else")
tElseIf == Tok("ElseIf")
tLP == Tok("LParen")
tRP == Tok("RParen")
tLS == Tok("LSquare")
tRS == Tok("RSquare")
tLC == Tok("LCurly")
tRC == Tok("RCurly")
tComma == Tok("Comma")
tColon == Tok("Colon")
tEq == Tok("Equal")
tEqEq == Tok("EqualEqual")
tBangEq == Tok("BangEqual")
tPlus == Tok("Plus")
tMinus == Tok("Minus")
tStar == Tok("Star")
tSlash == Tok("Slash")
tLess == Tok("Less")
tGreater == Tok("Greater")
tNot == Tok("Not")
tAnd == Tok("And")
tOr == Tok("Or")
tTrue == Tok("True")
tFalse == Tok("False")
N(d) == Num(<<d>>)

\* The largest number of expression statements put before a program (each
\* leaves its value on the stack, so the frames of the program's calls start
\* at every stack base from 0 to MaxPrefix), and the largest number of calls
\* of the counter closure.
MaxPrefix == 2
MaxCalls == 3

\* function g(a) a = 5 return a end
\* function f(b) return g(b) + b end
\* var r = f(1)
SrcSetLocal ==
  <<tFunction, Id("g"), tLP, Id("a"), tRP, Id("a"), tEq, N(5), tReturn, Id("a"), tEnd,
    tFunction, Id("f"), tLP, Id("b"), tRP,
      tReturn, Id("g"), tLP, Id("b"), tRP, tPlus, Id("b"), tEnd,
    tVar, Id("r"), tEq, Id("f"), tLP, N(1), tRP>>

\* function makeCounter()
\*   var n = 0
\*   function bump() n = n + 1 return n end
\*   return bump
\* end
\* var c = makeCounter()   followed by k statements c()
RECURSIVE Repeat(_, _)
Repeat(toks, k) == IF k = 0 THEN <<>> ELSE toks \o Repeat(toks, k - 1)
SrcCounter(k) ==
  <<tFunction, Id("makeCounter"), tLP, tRP,
      tVar, Id("n"), tEq, N(0),
      tFunction, Id("bump"), tLP, tRP,
        Id("n"), tEq, Id("n"), tPlus, N(1), tReturn, Id("n"), tEnd,
      tReturn, Id("bump"), tEnd,
    tVar, Id("c"), tEq, Id("makeCounter"), tLP, tRP>>
  \o Repeat(<<Id("c"), tLP, tRP>>, k)

\* function outer(x) function inner() return x end return inner end
\* var p = outer(1)  var q = outer(2)  var r = p()  var s = q()
SrcTwice ==
  <<tFunction, Id("outer"), tLP, Id("x"), tRP,
      tFunction, Id("inner"), tLP, tRP, tReturn, Id("x"), tEnd,
      tReturn, Id("inner"), tEnd,
    tVar, Id("p"), tEq, Id("outer"), tLP, N(1), tRP,
    tVar, Id("q"), tEq, Id("outer"), tLP, N(2), tRP,
    tVar, Id("r"), tEq, Id("p"), tLP, tRP,
    tVar, Id("s"), tEq, Id("q"), tLP, tRP>>

\* function outer(x) function inner() return x end return inner() end
\* var r = outer(4)
SrcOpen ==
  <<tFunction, Id("outer"), tLP, Id("x"), tRP,
      tFunction, Id("inner"), tLP, tRP, tReturn, Id("x"), tEnd,
      tReturn, Id("inner"), tLP, tRP, tEnd,
    tVar, Id("r"), tEq, Id("outer"), tLP, N(4), tRP>>

\* function outer(x)
\*   function a() return x end
\*   function b() return x end
\*   return a() + b()
\* end
\* var r = outer(3)
SrcShared ==
  <<tFunction, Id("outer"), tLP, Id("x"), tRP,
      tFunction, Id("a"), tLP, tRP, tReturn, Id("x"), tEnd,
      tFunction, Id("b"), tLP, tRP, tReturn, Id("x"), tEnd,
      tReturn, Id("a"), tLP, tRP, tPlus, Id("b"), tLP, tRP, tEnd,
    tVar, Id("r"), tEq, Id("outer"), tLP, N(3), tRP>>

\* function a(x)
\*   function b() function c() return x end return c() end
\*   return b()
\* end
\* var r = a(1)
SrcDeep ==
  <<tFunction, Id("a"), tLP, Id("x"), tRP,
      tFunction, Id("b"), tLP, tRP,
        tFunction, Id("c"), tLP, tRP, tReturn, Id("x"), tEnd,
        tReturn, Id("c"), tLP, tRP, tEnd,
      tReturn, Id("b"), tLP, tRP, tEnd,
    tVar, Id("r"), tEq, Id("a"), tLP, N(1), tRP>>

\* function f(a) if a then return a end return 0 end
\* var r = f(1)
SrcBlock ==
  <<tFunction, Id("f"), tLP, Id("a"), tRP,
      tIf, Id("a"), tThen, tReturn, Id("a"), tEnd,
      tReturn, N(0), tEnd,
    tVar, Id("r"), tEq, Id("f"), tLP, N(1), tRP>>

\* function f() 7 var x = 1 return x end
\* var r = f()
SrcSlot ==
  <<tFunction, Id("f"), tLP, tRP,
      N(7), tVar, Id("x"), tEq, N(1), tReturn, Id("x"), tEnd,
    tVar, Id("r"), tEq, Id("f"), tLP, tRP>>

\* function f() var + var x = 1 return x end
\* var r = f()
SrcNestedError ==
  <<tFunction, Id("f"), tLP, tRP,
      tVar, tPlus, tVar, Id("x"), tEq, N(1), tReturn, Id("x"), tEnd,
    tVar, Id("r"), tEq, Id("f"), tLP, tRP>>

\* var + 1
SrcError == <<tVar, tPlus, N(1)>>

\* var i = 0  while i < 2 do i = i + 1 end
\* var t = [1, 2]  var e = t[0]  var h = {"k": 3}
\* print(len(t))
\* var b = not (1 > 2) and true or false
\* var q = 6 / 2 * 3 - 1
\* var z = 1 == 1
\* var s = str(1) + "a"
\* var n
\* if b then var k = 1 i = 5 else i = 6 end
\* var l = read_line()
SrcAllOps ==
  <<tVar, Id("i"), tEq, N(0),
    tWhile, Id("i"), tLess, N(2), tDo, Id("i"), tEq, Id("i"), tPlus, N(1), tEnd,
    tVar, Id("t"), tEq, tLS, N(1), tComma, N(2), tRS,
    tVar, Id("e"), tEq, Id("t"), tLS, N(0), tRS,
    tVar, Id("h"), tEq, tLC, Str("k"), tColon, N(3), tRC,
    Id("print"), tLP, Id("len"), tLP, Id("t"), tRP, tRP,
    tVar, Id("b"), tEq, tNot, tLP, N(1), tGreater, N(2), tRP, tAnd, tTrue, tOr, tFalse,
    tVar, Id("q"), tEq, N(6), tSlash, N(2), tStar, N(3), tMinus, N(1),
    tVar, Id("z"), tEq, N(1), tEqEq, N(1),
    tVar, Id("s"), tEq, Id("str"), tLP, N(1), tRP, tPlus, Str("a"),
    tVar, Id("n"),
    tIf, Id("b"), tThen, tVar, Id("k"), tEq, N(1), Id("i"), tEq, N(5), tElse, Id("i"), tEq, N(6), tEnd,
    tVar, Id("l"), tEq, Id("read_line"), tLP, tRP>>

\* var x = 1  x()
SrcCallNumber == <<tVar, Id("x"), tEq, N(1), Id("x"), tLP, tRP>>

\* return 1
SrcReturnTopLevel == <<tReturn, N(1)>>

\* var a = 0
\* function f()
\*   while a < 2 do a = a + 1 end
\*   if a > 5 then return 1 elseif a > 1 then return 2 else return 3 end
\* end
\* var r = f()
\* if r > 5 then r = 0 end
SrcJumps ==
  <<tVar, Id("a"), tEq, N(0),
    tFunction, Id("f"), tLP, tRP,
      tWhile, Id("a"), tLess, N(2), tDo, Id("a"), tEq, Id("a"), tPlus, N(1), tEnd,
      tIf, Id("a"), tGreater, N(5), tThen, tReturn, N(1),
      tElseIf, Id("a"), tGreater, N(1), tThen, tReturn, N(2),
      tElse, tReturn, N(3), tEnd,
    tEnd,
    tVar, Id("r"), tEq, Id("f"), tLP, tRP,
    tIf, Id("r"), tGreater, N(5), tThen, Id("r"), tEq, N(0), tEnd>>

\* function f() while true do var + var y = 1 end end
\* var z = 2
SrcJumpError ==
  <<tFunction, Id("f"), tLP, tRP,
      tWhile, tTrue, tDo, tVar, tPlus, tVar, Id("y"), tEq, N(1), tEnd,
    tEnd,
    tVar, Id("z"), tEq, N(2)>>

\* function f() if true then 1 elseif + then 2 end
\* var z = 2
SrcElseIfError ==
  <<tFunction, Id("f"), tLP, tRP,
      tIf, tTrue, tThen, N(1), tElseIf, tPlus, tThen, N(2), tEnd,
    tVar, Id("z"), tEq, N(2)>>

\* var u = true
\* if u then var x = 1 var x = 2 end
\* var w = 3
SrcRedeclare ==
  <<tVar, Id("u"), tEq, tTrue,
    tIf, Id("u"), tThen, tVar, Id("x"), tEq, N(1), tVar, Id("x"), tEq, N(2), tEnd,
    tVar, Id("w"), tEq, N(3)>>

\* var x = 1  x = 2  var x = 3
SrcRedefine ==
  <<tVar, Id("x"), tEq, N(1), Id("x"), tEq, N(2), tVar, Id("x"), tEq, N(3)>>

\* var len = 1
SrcRedefineNative == <<tVar, Id("len"), tEq, N(1)>>

\* y = 1
SrcSetUnknown == <<Id("y"), tEq, N(1)>>

\* y
SrcGetUnknown == <<Id("y")>>

\* valueOf = 1  toString
SrcInherited == <<Id("valueOf"), tEq, N(1), Id("toString")>>

\* print(1, 2)
\* var n = len([7])
\* str()
SrcNatives ==
  <<Id("print"), tLP, N(1), tComma, N(2), tRP,
    tVar, Id("n"), tEq, Id("len"), tLP, tLS, N(7), tRS, tRP,
    Id("str"), tLP, tRP>>

\* var z = [1] == [1]
\* var m = 1 == "a"
SrcTableEqual ==
  <<tVar, Id("z"), tEq, tLS, N(1), tRS, tEqEq, tLS, N(1), tRS,
    tVar, Id("m"), tEq, N(1), tEqEq, Str("a")>>

\* function add(a, b) return a + b end
\* var twoCalls = add(add(10, 2), 2)
\* function returnsFunction() function inner(a) return 17 + a end return inner end
\* var r = returnsFunction()(5)
\* var i = (function() return 789 end)()
SrcFunctions ==
  <<tFunction, Id("add"), tLP, Id("a"), tComma, Id("b"), tRP,
      tReturn, Id("a"), tPlus, Id("b"), tEnd,
    tVar, Id("twoCalls"), tEq,
      Id("add"), tLP, Id("add"), tLP, Num(<<1, 0>>), tComma, N(2), tRP, tComma, N(2), tRP,
    tFunction, Id("returnsFunction"), tLP, tRP,
      tFunction, Id("inner"), tLP, Id("a"), tRP, tReturn, Num(<<1, 7>>), tPlus, Id("a"), tEnd,
      tReturn, Id("inner"), tEnd,
    tVar, Id("r"), tEq, Id("returnsFunction"), tLP, tRP, tLP, N(5), tRP,
    tVar, Id("i"), tEq, tLP, tFunction, tLP, tRP, tReturn, Num(<<7, 8, 9>>), tEnd, tRP, tLP, tRP>>

\* function f(a) return 7 end
\* var r = f()
\* var s = f(1, 2)
SrcArity ==
  <<tFunction, Id("f"), tLP, Id("a"), tRP, tReturn, N(7), tEnd,
    tVar, Id("r"), tEq, Id("f"), tLP, tRP,
    tVar, Id("s"), tEq, Id("f"), tLP, N(1), tComma, N(2), tRP>>

\* var t = {"a": 1, "a": 2}
\* var n = len(t)
SrcRepeatedKey ==
  <<tVar, Id("t"), tEq, tLC, Str("a"), tColon, N(1), tComma, Str("a"), tColon, N(2), tRC,
    tVar, Id("n"), tEq, Id("len"), tLP, Id("t"), tRP>>

\* var k = 1  if true then var j = 2  print(j) end
SrcLine ==
  <<tVar, Id("k"), tEq, N(1),
    tIf, tTrue, tThen, tVar, Id("j"), tEq, N(2),
      Id("print"), tLP, Id("j"), tRP, tEnd>>

SourceNames ==
  {"Line", "RepeatedKey", "Arity", "Functions", "TableEqual", "Natives", "Inherited", "GetUnknown", "SetUnknown", "RedefineNative", "Redefine", "Redeclare", "ElseIfError", "JumpError", "Jumps", "SetLocal", "Twice", "Open", "Shared", "Deep", "Block", "Slot", "NestedError",
   "Error", "AllOps", "CallNumber", "ReturnTopLevel"}

\* The literals the operator sources apply an operator to.
Literals == {N(6), N(2), Str("a"), Str("b"), tTrue, tFalse}

\* The token of each binary operator, by the opcode it compiles to.
OperatorTokens ==
  [Add |-> tPlus, Sub |-> tMinus, Multiply |-> tStar, Divide |-> tSlash,
   Greater |-> tGreater, Less |-> tLess, And |-> tAnd, Or |-> tOr]

\* var r = a op b, and var r = not a
SrcOperator(op, operands) ==
  IF op = "Not" THEN <<tVar, Id("r"), tEq, tNot, operands[1]>>
  ELSE <<tVar, Id("r"), tEq, operands[1], OperatorTokens[op], operands[2]>>

\* print(d)
PrintDigit(d) == <<Id("print"), tLP, N(d), tRP>>

\* The conditions of the truthiness sources: true, false, 0, 6, "", "a",
\* and the globals n (Null), t (a hash table), f (a function) and print (a
\* native function).
Conditions ==
  {<<tTrue>>, <<tFalse>>, <<N(0)>>, <<N(6)>>, <<Str("")>>, <<Str("a")>>,
   <<Id("n")>>, <<Id("t")>>, <<Id("f")>>, <<Id("print")>>}

\* function f() end  var n  var t = [1]
\* if cond then print(1) else print(2) end
\* print(9)
SrcTruthy(cond) ==
  <<tFunction, Id("f"), tLP, tRP, tEnd, tVar, Id("n"),
    tVar, Id("t"), tEq, tLS, N(1), tRS, tIf>>
    \o cond \o <<tThen>> \o PrintDigit(1) \o <<tElse>> \o PrintDigit(2) \o <<tEnd>>
    \o PrintDigit(9)

\* The keys the subscript sources look up.
Keys == {Str("a"), Str("b"), Str("c"), Str("1"), Str("toString"), N(0), N(1), N(2), N(3)}

\* var r = {"a": 6, "b": "x"}[key]     (TableGet)
\* var r = [6, "x", true][key]         (ListGet)
\* print(9)
SrcGet(name, key) ==
  <<tVar, Id("r"), tEq>>
    \o (IF name = "TableGet"
        THEN <<tLC, Str("a"), tColon, N(6), tComma, Str("b"), tColon, Str("x"), tRC>>
        ELSE <<tLS, N(6), tComma, Str("x"), tComma, tTrue, tRS>>)
    \o <<tLS, key, tRS>> \o PrintDigit(9)

\* The most branches (if and elseif) of the conditional sources.
MaxBranches == 3

\* c1() then print(2) elseif c2() then print(3) elseif c3() then print(4)
RECURSIVE Branches(_, _)
Branches(conds, i) ==
  <<conds[i], tLP, tRP, tThen>> \o PrintDigit(i + 1)
    \o (IF i < Len(conds) THEN <<tElseIf>> \o Branches(conds, i + 1) ELSE <<>>)

\* function y() print(1) return true end
\* function z() print(0) return false end
\* if c1() then print(2) elseif c2() then print(3) ... [else print(6)] end
\* print(9)
\* with each condition one of y and z; "IfElse" has the else branch.
SrcIf(name, conds) ==
  <<tFunction, Id("y"), tLP, tRP>> \o PrintDigit(1) \o <<tReturn, tTrue, tEnd,
    tFunction, Id("z"), tLP, tRP>> \o PrintDigit(0) \o <<tReturn, tFalse, tEnd, tIf>>
    \o Branches(conds, 1)
    \o (IF name = "IfElse" THEN <<tElse>> \o PrintDigit(6) ELSE <<>>)
    \o <<tEnd>> \o PrintDigit(9)

\* The largest count of the while sources.
MaxCount == 3

\* var i = 0
\* function lt() print(7) return i < n end
\* while lt() do var k = i  print(k)  i = i + 1 end
\* print(9)
SrcWhile(n) ==
  <<tVar, Id("i"), tEq, N(0),
    tFunction, Id("lt"), tLP, tRP>> \o PrintDigit(7) \o <<tReturn, Id("i"), tLess, n, tEnd,
    tWhile, Id("lt"), tLP, tRP, tDo,
      tVar, Id("k"), tEq, Id("i"),
      Id("print"), tLP, Id("k"), tRP,
      Id("i"), tEq, Id("i"), tPlus, N(1),
    tEnd>> \o PrintDigit(9)

\* The tokens that have binary for infix function.
BinaryTokens ==
  {tPlus, tMinus, tStar, tSlash, tGreater, tLess, tAnd, tOr, tEqEq, tBangEq}

\* The operands of the precedence sources.
OperandTriples ==
  {<<N(1), N(2), N(3)>>, <<tTrue, N(2), N(3)>>, <<N(1), N(2), tTrue>>,
   <<tTrue, tFalse, tTrue>>}

\* var r = a op1 b op2 c
SrcPrecedence(e) == <<tVar, Id("r"), tEq>> \o e

\* A source: one of the programs above (the counter with its number of
\* calls) after `prefix` expression statements `7`, or an operator applied
\* to literals.
Sources ==
  [name : SourceNames, calls : {0}, prefix : 0..MaxPrefix, operands : {<<>>}]
    \cup [name : {"Counter"}, calls : 1..MaxCalls, prefix : 0..MaxPrefix,
          operands : {<<>>}]
    \cup [name : DOMAIN OperatorTokens, calls : {0}, prefix : {0},
          operands : Literals \X Literals]
    \cup [name : {"Not"}, calls : {0}, prefix : {0},
          operands : {<<l>> : l \in Literals}]
    \cup [name : {"Truthy"}, calls : {0}, prefix : {0},
          operands : {<<cond>> : cond \in Conditions}]
    \cup [name : {"TableGet", "ListGet"}, calls : {0}, prefix : {0},
          operands : {<<key>> : key \in Keys}]
    \cup [name : {"If", "IfElse"}, calls : {0}, prefix : {0},
          operands : UNION {[1..n -> {Id("y"), Id("z")}] : n \in 1..MaxBranches}]
    \cup [name : {"While"}, calls : {0}, prefix : {0},
          operands : {<<N(n)>> : n \in 0..MaxCount}]
    \cup [name : {"Precedence"}, calls : {0}, prefix : {0},
          operands : {<<e[1], op1, e[2], op2, e[3]>> : e \in OperandTriples, op1 \in BinaryTokens, op2 \in BinaryTokens}]

Tokens(src) ==
  Repeat(<<N(7)>>, src.prefix) \o
  CASE src.name = "SetLocal" -> SrcSetLocal
    [] src.name = "Counter" -> SrcCounter(src.calls)
    [] src.name \in DOMAIN OperatorTokens \cup {"Not"} ->
         SrcOperator(src.name, src.operands)
    [] src.name \in {"Truthy"} ->
         SrcTruthy(src.operands[1])
    [] src.name \in {"TableGet", "ListGet"} ->
         SrcGet(src.name, src.operands[1])
    [] src.name \in {"If", "IfElse"} ->
         SrcIf(src.name, src.operands)
    [] src.name \in {"While"} ->
         SrcWhile(src.operands[1])
    [] src.name \in {"Precedence"} ->
         SrcPrecedence(src.operands)
    [] src.name = "Stream" -> src.operands
    [] src.name = "Twice" -> SrcTwice
    [] src.name = "Open" -> SrcOpen
    [] src.name = "Shared" -> SrcShared
    [] src.name = "Deep" -> SrcDeep
    [] src.name = "Block" -> SrcBlock
    [] src.name = "Slot" -> SrcSlot
    [] src.name = "NestedError" -> SrcNestedError
    [] src.name = "Error" -> SrcError
    [] src.name = "AllOps" -> SrcAllOps
    [] src.name = "CallNumber" -> SrcCallNumber
    [] src.name = "ReturnTopLevel" -> SrcReturnTopLevel
    [] src.name = "Line" -> SrcLine
    [] src.name = "RepeatedKey" -> SrcRepeatedKey
    [] src.name = "Arity" -> SrcArity
    [] src.name = "Functions" -> SrcFunctions
    [] src.name = "TableEqual" -> SrcTableEqual
    [] src.name = "Natives" -> SrcNatives
    [] src.name = "Inherited" -> SrcInherited
    [] src.name = "GetUnknown" -> SrcGetUnknown
    [] src.name = "SetUnknown" -> SrcSetUnknown
    [] src.name = "RedefineNative" -> SrcRedefineNative
    [] src.name = "Redefine" -> SrcRedefine
    [] src.name = "Redeclare" -> SrcRedeclare
    [] src.name = "ElseIfError" -> SrcElseIfError
    [] src.name = "JumpError" -> SrcJumpError
    [] src.name = "Jumps" -> SrcJumps

\* The lines read_line may read.
InputLines == {"", "hello"}

\* ---------------------------------------------------------- the machine

NotCompiled ==
  [ok |-> FALSE, program |-> <<>>, fns |-> <<>>, logged |-> 0, resolved |-> <<>>,
   stmts |-> <<>>, scopes |-> <<>>, toks |-> <<>>, calls |-> <<>>, syncs |-> <<>>,
   compiler |-> NewCompiler(ErrorTok, ErrorTok)]

\* new ElyVm(): nothing but the runtime library in globals.
NewVm ==
  [status |-> "idle", error |-> "", code |-> 0, programCounter |-> 0,
   globals |-> addRuntimeApi, stack |-> <<>>, callStack |-> <<>>,
   openUpvalues |-> <<>>, heap |-> <<>>, upValues |-> <<>>, tables |-> <<>>,
   result |-> Undefined, out |-> <<>>]

\* ------------------------------------------------------------- the lexer

\* What source[i] yields past the end of the string.
NoChar == "undefined"

NoToken == [type |-> "none", value |-> <<>>, line |-> 0]

\* new Lexer(source).  outcome and token record how the last call of
\* nextToken ended and what it returned; calls counts the calls made.
NewLexer(text) ==
  [source |-> text, pos |-> 0, start |-> 0, line |-> 1,
   outcome |-> "new", token |-> NoToken, thrown |-> "", calls |-> 0]

isAtEnd(l) == l.pos >= Len(l.source)

simpleToken(l, type) == [type |-> type, value |-> <<>>, line |-> l.line]

stringValueToken(l, type, value) == [type |-> type, value |-> value, line |-> l.line]

returns(l, token) == [l EXCEPT !.outcome = "returned", !.token = token]

throws(l, msg) == [l EXCEPT !.outcome = "threw", !.thrown = msg]

\* Lexer.advance: the character it returns is the one peek saw before it.
lexerAdvance(l) ==
  IF l.outcome = "threw" THEN l
  ELSE IF isAtEnd(l) THEN throws(l, "lex: ran out of input")
  ELSE [l EXCEPT !.pos = @ + 1]

lexerPeek(l, offset) ==
  IF l.pos + offset + 1 \in 1..Len(l.source) THEN l.source[l.pos + offset + 1] ELSE NoChar

substring(l, from, to) == SubSeq(l.source, from + 1, to)

RECURSIVE skipComment(_)
skipComment(l) ==
  IF ~isAtEnd(l) /\ lexerPeek(l, 0) # "\n" THEN skipComment(lexerAdvance(l)) ELSE l

\* A '\r' that no '\n' follows breaks out of the switch with nothing
\* consumed, so the next iteration of while (true) reads the same '\r':
\* the loop never ends, which outcome "loops" records.
RECURSIVE skipWhitespace(_)
skipWhitespace(l) ==
  CASE lexerPeek(l, 0) \in {" ", "\t"} -> skipWhitespace(lexerAdvance(l))
    [] lexerPeek(l, 0) = "\n" -> skipWhitespace(lexerAdvance([l EXCEPT !.line = @ + 1]))
    [] lexerPeek(l, 0) = "\r" ->
         IF lexerPeek(l, 1) = "\n"
         THEN skipWhitespace(lexerAdvance(lexerAdvance([l EXCEPT !.line = @ + 1])))
         ELSE [l EXCEPT !.outcome = "loops"]
    [] lexerPeek(l, 0) = "#" -> skipWhitespace(skipComment(l))
    [] OTHER -> l

Letters ==
  {"a", "b", "c", "d", "e", "f", "h", "i", "k", "l", "n", "o", "r", "s", "t", "u", "v", "w"}

Digits == {"0", "1", "2", "3", "4", "5", "6", "7", "8", "9"}

isAlpha(c) == c # NoChar /\ c \in Letters

isNumeric(c) == c # NoChar /\ c \in Digits

Keywords ==
  (<<"f", "u", "n", "c", "t", "i", "o", "n">> :> "Function")
    @@ (<<"r", "e", "t", "u", "r", "n">> :> "Return")
    @@ (<<"v", "a", "r">> :> "Var")
    @@ (<<"w", "h", "i", "l", "e">> :> "While")
    @@ (<<"d", "o">> :> "Do")
    @@ (<<"b", "r", "e", "a", "k">> :> "Break")
    @@ (<<"i", "f">> :> "If")
    @@ (<<"t", "h", "e", "n">> :> "Then")
    @@ (<<"e", "l", "s", "e">> :> "Else")
    @@ (<<"e", "l", "s", "e", "i", "f">> :> "ElseIf")
    @@ (<<"e", "n", "d">> :> "End")
    @@ (<<"t", "r", "u", "e">> :> "True")
    @@ (<<"f", "a", "l", "s", "e">> :> "False")
    @@ (<<"a", "n", "d">> :> "And")
    @@ (<<"o", "r">> :> "Or")
    @@ (<<"n", "o", "t">> :> "Not")

RECURSIVE lexerIdentifier(_)
lexerIdentifier(l) ==
  IF isAlpha(lexerPeek(l, 0)) \/ lexerPeek(l, 0) = "_"
  THEN lexerIdentifier(lexerAdvance(l))
  ELSE IF substring(l, l.start, l.pos) \in DOMAIN Keywords
       THEN returns(l, simpleToken(l, Keywords[substring(l, l.start, l.pos)]))
       ELSE returns(l, stringValueToken(l, "Identifier", substring(l, l.start, l.pos)))

\* Lexer.string: with no closing quote the loop runs advance off the end.
RECURSIVE lexerString(_)
lexerString(l) ==
  IF l.outcome = "threw" THEN l
  ELSE IF lexerPeek(l, 0) # "\""
  THEN lexerString(lexerAdvance(l))
  ELSE returns(lexerAdvance(l), stringValueToken(l, "String", substring(l, l.start + 1, l.pos)))

RECURSIVE lexerNumber(_)
lexerNumber(l) ==
  IF isNumeric(lexerPeek(l, 0)) \/ lexerPeek(l, 0) = "."
  THEN lexerNumber(lexerAdvance(l))
  ELSE returns(l, stringValueToken(l, "Number", substring(l, l.start, l.pos)))

SimpleTokens ==
  ("(" :> "LParen") @@ (")" :> "RParen") @@ ("[" :> "LSquare") @@ ("]" :> "RSquare")
    @@ ("{" :> "LCurly") @@ ("}" :> "RCurly") @@ ("+" :> "Plus") @@ ("-" :> "Minus")
    @@ (">" :> "Greater") @@ ("<" :> "Less") @@ ("*" :> "Star") @@ ("/" :> "Slash")
    @@ ("," :> "Comma") @@ (":" :> "Colon")

\* nextToken after const c = this.advance(): l has consumed c.
scanFrom(l, c) ==
  CASE isAlpha(c) -> lexerIdentifier(l)
    [] isNumeric(c) -> lexerNumber(l)
    [] c = "=" -> IF lexerPeek(l, 0) = "="
                  THEN returns(lexerAdvance(l), simpleToken(l, "EqualEqual"))
                  ELSE returns(l, simpleToken(l, "Equal"))
    [] c = "!" /\ lexerPeek(l, 0) = "=" -> returns(lexerAdvance(l), simpleToken(l, "BangEqual"))
    [] c = "\"" -> lexerString(l)
    [] c \in DOMAIN SimpleTokens -> returns(l, simpleToken(l, SimpleTokens[c]))
    [] OTHER -> throws(l, "unexpected character")

nextToken(l) ==
  LET scan(l1) ==
        IF l1.outcome = "loops" THEN l1
        ELSE IF isAtEnd(l1) THEN returns(l1, simpleToken(l1, "EOF"))
        ELSE scanFrom(lexerAdvance(l1), lexerPeek(l1, 0))
      started(l1) == IF l1.outcome = "loops" THEN l1 ELSE [l1 EXCEPT !.start = l1.pos]
  IN scan(started(skipWhitespace([l EXCEPT !.outcome = "running", !.calls = @ + 1])))

Init ==
  /\ lines = 1
  /\ lexer = NewLexer(<<>>)
  /\ source \in Sources
  /\ compiled = NotCompiled
  /\ vm = NewVm

\* main, and one turn of repl: compile the source on the Compiler object
\* and, when compile returns, run the program on the ElyVm object.  run(code)
\* sets code and programCounter and nothing else; the function objects of
\* the program come into being with no upvalues.
Compile ==
  /\ vm.status = "idle"
  /\ compiled' = compileOn(compiled.compiler, compiled.fns, Tokens(source))
  /\ vm' = IF compiled'.ok
           THEN [vm EXCEPT !.status = "running",
                           !.code = 0,
                           !.programCounter = 0,
                           !.upValues = [i \in 1..Len(compiled'.fns) |->
                                           IF i <= Len(@) THEN @[i] ELSE <<>>]]
           ELSE [vm EXCEPT !.status = "compileError"]
  /\ UNCHANGED <<lines, lexer, source>>

\* The opcode run() reads next.
AtOp(name) ==
  /\ vm.status = "running"
  /\ RawAt(vm, vm.programCounter) = Op(name)

Step(name, next) ==
  /\ AtOp(name)
  /\ vm' = next
  /\ UNCHANGED <<lines, lexer, source, compiled>>

CalleeType == peek(vm, Operand(vm, 1).n).type

Halt == Step("Halt", OpHalt(vm))
GetGlobal == Step("GetGlobal", OpGetGlobal(vm))
PushImmediate == Step("PushImmediate", OpPushImmediate(vm))
Null == Step("Null", OpNull(vm))
Pop == Step("Pop", OpPop(vm))
DefineGlobal == Step("DefineGlobal", OpDefineGlobal(vm))
SetGlobal == Step("SetGlobal", OpSetGlobal(vm))
GetLocal == Step("GetLocal", OpGetLocal(vm))
SetLocal == Step("SetLocal", OpSetLocal(vm))
CreateHT == Step("CreateHT", OpCreateHT(vm))
GetHT == Step("GetHT", OpGetHT(vm))
GetUpvalue == Step("GetUpvalue", OpGetUpvalue(vm))
Closure == Step("Closure", OpClosure(vm))
Add == Step("Add", OpAdd(vm))
Greater == Step("Greater", OpGreater(vm))
Less == Step("Less", OpLess(vm))
Multiply == Step("Multiply", OpMultiply(vm))
Divide == Step("Divide", OpDivide(vm))
Not == Step("Not", OpNot(vm))
Equal == Step("Equal", OpEqual(vm))
And == Step("And", OpAnd(vm))
Or == Step("Or", OpOr(vm))
Sub == Step("Sub", OpSub(vm))
CallNative ==
  /\ AtOp("Call")
  /\ Operand(vm, 1).k = "num"
  /\ CalleeType = "NativeFunction"
  /\ peek(vm, Operand(vm, 1).n).s # "read_line"
  /\ vm' = OpCallNative(vm, "")
  /\ UNCHANGED <<lines, lexer, source, compiled>>
CallAsync ==
  /\ AtOp("Call")
  /\ Operand(vm, 1).k = "num"
  /\ CalleeType = "NativeFunction"
  /\ peek(vm, Operand(vm, 1).n).s = "read_line"
  /\ vm' = OpCallAsync(vm)
  /\ UNCHANGED <<lines, lexer, source, compiled>>
Resume ==
  /\ vm.status = "awaiting"
  /\ \E line \in InputLines : vm' = OpResume(vm, line)
  /\ UNCHANGED <<lines, lexer, source, compiled>>
CallFunction ==
  /\ Operand(vm, 1).k = "num"
  /\ CalleeType = "Function"
  /\ Step("Call", OpCallFunction(vm))
CallOther ==
  /\ Operand(vm, 1).k # "num" \/ CalleeType \notin {"NativeFunction", "Function"}
  /\ Step("Call", OpCallOther(vm))
Return == Len(vm.callStack) > 0 /\ Step("Return", OpReturn(vm))
ReturnTopLevel == Len(vm.callStack) = 0 /\ Step("Return", OpReturnTopLevel(vm))
Jump == Step("Jump", OpJump(vm))
JumpIfFalse == Step("JumpIfFalse", OpJumpIfFalse(vm))

\* The opcodes with a case in run()'s switch that the compiler emits.
Handled ==
  {"Halt", "GetGlobal", "PushImmediate", "Null", "Pop", "DefineGlobal",
   "SetGlobal", "GetLocal", "SetLocal", "CreateHT", "GetHT", "GetUpvalue",
   "Closure", "Add", "Greater", "Less", "Multiply", "Divide", "Not", "Equal",
   "And", "Or", "Sub", "Call", "Return", "Jump", "JumpIfFalse"}

\* Anything else reaches the default case.
Unknown ==
  /\ vm.status = "running"
  /\ RawAt(vm, vm.programCounter).k # "undefined"
  /\ ~(RawAt(vm, vm.programCounter).k = "op" /\ RawAt(vm, vm.programCounter).s \in Handled)
  /\ vm' = OpUnknown(vm)
  /\ UNCHANGED <<lines, lexer, source, compiled>>

Next ==
  \/ Compile
  \/ Halt \/ GetGlobal \/ PushImmediate \/ Null \/ Pop
  \/ DefineGlobal \/ SetGlobal \/ GetLocal \/ SetLocal
  \/ CreateHT \/ GetHT \/ GetUpvalue \/ Closure
  \/ Add \/ Greater \/ Less \/ Multiply \/ Divide \/ Not \/ Equal \/ And \/ Or \/ Sub
  \/ CallNative \/ CallAsync \/ Resume \/ CallFunction \/ CallOther \/ Return \/ ReturnTopLevel
  \/ Jump \/ JumpIfFalse \/ Unknown

Spec == Init /\ [][Next]_vars


\* -------------------------------------------------- the lexer on its own

MaxSource == 3

MaxTokens == 6

Alphabet == {"d", "o", "_", "1", " ", "\n", "\r", "#", "\"", "=", "!", "(", "$"}

LexSources == UNION {[1..n -> Alphabet] : n \in 0..MaxSource}

LexInit ==
  /\ lines = 1
  /\ lexer \in {NewLexer(text) : text \in LexSources}
  /\ source \in {s \in Sources : s.name = "Counter" /\ s.calls = 1 /\ s.prefix = 0}
  /\ compiled = NotCompiled
  /\ vm = NewVm

\* One call of lexer.nextToken(); a call that never returns is the last.
NextToken ==
  /\ lexer.outcome # "loops"
  /\ lexer.calls < MaxTokens
  /\ lexer' = nextToken(lexer)
  /\ UNCHANGED <<lines, source, compiled, vm>>

LexNext == NextToken

LexSpec == LexInit /\ [][LexNext]_vars


\* ----------------------------------------------- the compiler on its own

MaxStream == 4

StreamTokens == {tVar, tFunction, tThen, tEnd, Id("x"), tLP, tRP, N(1)}

\* Every token stream of at most MaxStream tokens of StreamTokens.
Streams == UNION {[1..n -> StreamTokens] : n \in 0..MaxStream}

ParseInit ==
  /\ lines = 1
  /\ lexer = NewLexer(<<>>)
  /\ source \in [name : {"Stream"}, calls : {0}, prefix : {0}, operands : Streams]
  /\ compiled = NotCompiled
  /\ vm = NewVm

ParseNext == Compile

ParseSpec == ParseInit /\ [][ParseNext]_vars


\* ------------------------------------------------ the read-eval-print loop

MaxLines == 2

\* The lines typed after the first: one that does not compile, one whose
\* run fails inside a call, one that fails at top level and one that is
\* free of errors.  None has a top-level return.
ReplLines ==
  {s \in Sources : /\ s.prefix = 0
                   /\ \/ s.name \in {"Error", "CallNumber", "Line"}
                      \/ s.name = "Counter" /\ s.calls = 1}

\* How compile or run ended: by returning or by an exception, which repl
\* catches and prints.
Ended == {"compileError", "halted", "returned", "fatal", "crashed"}

\* repl's loop comes round: the next line is read, and compiled and run on
\* the same Compiler and ElyVm objects.
NextLine ==
  /\ vm.status \in Ended
  /\ lines < MaxLines
  /\ lines' = lines + 1
  /\ source' \in ReplLines
  /\ vm' = [vm EXCEPT !.status = "idle", !.error = ""]
  /\ UNCHANGED <<lexer, compiled>>

ReplNext == Next \/ NextLine

ReplSpec == Init /\ [][ReplNext]_vars

\* ------------------------------------------------------------ properties

\* The stack base of the frame that is running, 0 at top level.
StackBase == IF Len(vm.callStack) = 0 THEN 0 ELSE frame(vm).stackBase

\* The instruction about to run ran to completion.
Ran(name) == AtOp(name) /\ vm'.status = "running"

\* C1: with a frame of stack base B active, SetLocal slot pops the top value
\* and stores it at stack[B + slot], every other position keeping its value,
\* and GetLocal slot pushes stack[B + slot]; at top level B is 0.
C1_LocalsAreFrameRelative ==
  [][ /\ Ran("SetLocal") =>
           /\ Len(vm'.stack) = Len(vm.stack) - 1
           /\ \A i \in 0..(Len(vm'.stack) - 1) :
                StackAt(vm', i) = IF i = StackBase + Operand(vm, 1).n
                                  THEN peek(vm, 0) ELSE StackAt(vm, i)
      /\ Ran("GetLocal") =>
           vm'.stack = Append(vm.stack, StackAt(vm, StackBase + Operand(vm, 1).n))
    ]_vars

\* C2: Call argc on a user function pushes a frame whose stack base is the
\* stack height - argc - 1 and runs the function's program from offset 0;
\* Return pops that frame, restores the caller's program and its program
\* counter to the instruction after the Call, cuts the stack at the frame's
\* stack base and pushes the return value iff its operand is 1, so that the
\* call stack is as deep after the call as before it.
C2_CallPushesFrameReturnPopsIt ==
  [][ /\ (Ran("Call") /\ Operand(vm, 1).k = "num" /\ CalleeType = "Function") =>
           /\ Len(vm'.callStack) = Len(vm.callStack) + 1
           /\ SubSeq(vm'.callStack, 1, Len(vm.callStack)) = vm.callStack
           /\ frame(vm').stackBase = Len(vm.stack) - Operand(vm, 1).n - 1
           /\ frame(vm').callingCode = vm.code
           /\ frame(vm').callingProgramCounter = vm.programCounter + 2
           /\ vm'.code = peek(vm, Operand(vm, 1).n).n
           /\ vm'.programCounter = 0
           /\ vm'.stack = vm.stack
      /\ (Ran("Return") /\ Len(vm.callStack) > 0) =>
           /\ Len(vm'.callStack) = Len(vm.callStack) - 1
           /\ \A i \in 1..Len(vm'.callStack) : vm'.callStack[i] = vm.callStack[i]
           /\ vm'.code = frame(vm).callingCode
           /\ vm'.programCounter = frame(vm).callingProgramCounter
           /\ RawAt(vm', vm'.programCounter - 2) = Op("Call")
           /\ frame(vm).stackBase <= Len(vm.stack)
           /\ vm'.stack = SubSeq(vm.stack, 1, frame(vm).stackBase)
                            \o (IF Operand(vm, 1).n = 1 THEN <<peek(vm, 0)>> ELSE <<>>)
    ]_vars

\* A call made above a non-empty stack has returned with a value: the
\* program counter is after the Call, no frame is left and the stack holds
\* what was below the callee and the value.
C2_Returned ==
  /\ source.name = "Open" /\ source.prefix > 0
  /\ vm.status = "running"
  /\ Len(vm.callStack) = 0
  /\ RawAt(vm, vm.programCounter - 2) = Op("Call")
  /\ Len(vm.stack) = source.prefix + 1
  /\ peek(vm, 0).type # "undefined"

\* C3: makeCounter's bump increments the captured n and returns it; after
\* var c = makeCounter(), the run has no runtime error and the k-th call c()
\* returns k.  (The calls are expression statements, so their results are
\* the values left on the top-level stack.)
C3_CounterCounts ==
  source.name = "Counter" =>
    /\ vm.status \in {"idle", "running", "halted"}
    /\ AtOp("Halt") =>
         \A k \in 1..source.calls : StackAt(vm, source.prefix + k - 1) = VNumber(k)

\* The function objects the machine holds as closures: on the stack, in a
\* global or in a frame.
ClosureInstances ==
  {vm.stack[i].n : i \in {j \in 1..Len(vm.stack) : vm.stack[j].type = "Function"}}
    \cup {vm.globals[g].n : g \in {h \in DOMAIN vm.globals : vm.globals[h].type = "Function"}}
    \cup {vm.callStack[i].closure : i \in 1..Len(vm.callStack)}

\* C4: every closure instance has as many upvalues as its function's
\* upvalue count, in every state, also after its Closure has run again.
C4_UpvalueCountMatches ==
  \A fn \in ClosureInstances :
    Len(vm.upValues[fn]) = compiled.fns[fn].upValueCount

\* C5: Return closes every open upvalue whose stack slot is at or above the
\* returning frame's stack base, with the value then in that slot, and leaves
\* open every open upvalue whose slot is below it.
C5_ReturnClosesOwnUpvalues ==
  [][ (Ran("Return") /\ Len(vm.callStack) > 0) =>
        \A i \in 1..Len(vm.openUpvalues) :
          LET u == vm.openUpvalues[i]
          IN vm.heap[u].closed.type = "undefined" =>
               IF vm.heap[u].stackSlot >= frame(vm).stackBase
               THEN vm'.heap[u].closed = StackAt(vm, vm.heap[u].stackSlot)
               ELSE vm'.heap[u] = vm.heap[u]
    ]_vars

\* C6: Closure in a frame of stack base B, reading the descriptor
\* (is-local 1, index i), captures an open upvalue for the absolute slot
\* B + i, and reading (is-local 0, index i) takes upvalue i of the running
\* closure; GetUpvalue on an open upvalue pushes the value in its slot.
C6_CaptureIsAbsolute ==
  [][ /\ Ran("Closure") =>
           LET fn == Operand(vm, 1).n
               had == Len(vm.upValues[fn])
           IN \A j \in 1..compiled.fns[fn].upValueCount :
                LET isLocal == Operand(vm, 2 * j)
                    index == Operand(vm, 2 * j + 1)
                    u == vm'.upValues[fn][had + j]
                IN IF isLocal.n = 1
                   THEN /\ vm'.heap[u].stackSlot = StackBase + index.n
                        /\ vm'.heap[u].closed.type = "undefined"
                   ELSE u = upValueAt(vm, frame(vm).closure, index.n)
      /\ Ran("GetUpvalue") =>
           LET u == upValueAt(vm, frame(vm).closure, Operand(vm, 1).n)
           IN vm.heap[u].closed.type = "undefined" =>
                vm'.stack = Append(vm.stack, StackAt(vm, vm.heap[u].stackSlot))
    ]_vars

\* C7: openUpvalues never holds two open upvalues for one stack slot.
C7_OneOpenUpvaluePerSlot ==
  \A i, j \in 1..Len(vm.openUpvalues) :
    LET u == vm.heap[vm.openUpvalues[i]]
        w == vm.heap[vm.openUpvalues[j]]
    IN (u.closed.type = "undefined" /\ w.closed.type = "undefined"
          /\ u.stackSlot = w.stackSlot) => i = j

\* The slot of the innermost declaration of name in a chain of scopes.
RECURSIVE chainSlot(_, _)
chainSlot(scopes, name) ==
  IF Len(scopes) = 0 THEN NotFound
  ELSE IF name \in DOMAIN scopes[Len(scopes)]
  THEN scopes[Len(scopes)][name].stackSlot
  ELSE chainSlot(SubSeq(scopes, 1, Len(scopes) - 1), name)

\* C8: an identifier naming a local of any scope of the current function's
\* scope chain compiles to GetLocal/SetLocal with that local's slot; to
\* GetUpvalue/SetUpvalue only when there is no such local and an enclosing
\* function declares the name; to GetGlobal/SetGlobal only when neither is.
C8_ResolutionOrder ==
  \A i \in 1..Len(compiled.resolved) :
    LET e == compiled.resolved[i]
        slot == chainSlot(e.locals, e.name)
        outer == \E k \in 1..Len(e.enclosing) : chainSlot(e.enclosing[k], e.name) # NotFound
    IN IF slot # NotFound
       THEN e.getOp = "GetLocal" /\ e.setOp = "SetLocal" /\ e.arg = RNum(slot)
       ELSE IF outer THEN e.getOp = "GetUpvalue" /\ e.setOp = "SetUpvalue"
       ELSE e.getOp = "GetGlobal" /\ e.setOp = "SetGlobal" /\ e.arg = RStr(e.name)

\* C9: the value at stack[stack base + slot] is the value bound to the
\* local with that slot, whatever statements precede its declaration: in
\* function f() 7 var x = 1 return x end, x is bound to 1 after the
\* expression statement 7, so f() returns 1 and var r = f() defines r as 1.
C9_SlotHoldsItsLocal ==
  (source.name = "Slot" /\ "r" \in DOMAIN vm.globals) => vm.globals["r"] = VNumber(1)

\* C10: compile returns a program only if no statement, at any nesting
\* level, raised a fatal that was recorded.
C10_RecordedFatalFailsCompile ==
  compiled.logged > 0 => ~compiled.ok

\* C11: when an accepted program reaches Halt the stack holds at most one
\* value, and run returns that value (nothing when the stack is empty).
C11_AtMostOneValueAtHalt ==
  AtOp("Halt") =>
    /\ Len(vm.stack) <= 1
    /\ OpHalt(vm).result = (IF Len(vm.stack) = 1 THEN vm.stack[1] ELSE Undefined)

\* Statement j of the top level is an expression statement.
ExpressionStatement(j) ==
  compiled.stmts[j].type \notin {"Var", "While", "If", "Function", "Return"}

\* C12: at scope depth 0 a var, while, if or function statement leaves the
\* stack as high as it found it and an expression statement (an assignment
\* and a call of a native that returns nothing included) leaves exactly one
\* value more: at the end of statement j the stack holds one value for each
\* expression statement among the statements 1..j.
C12_StatementsKeepStackHeight ==
  (vm.status = "running" /\ vm.code = 0 /\ Len(vm.callStack) = 0) =>
    \A j \in 1..Len(compiled.stmts) :
      vm.programCounter = compiled.stmts[j].to =>
        Len(vm.stack) = Cardinality({i \in 1..j : ExpressionStatement(i)})

\* The number of operands run() reads after the opcode at offset i of p.
OperandCount(p, i) ==
  LET name == p[i + 1].s
  IN IF name = "Closure"
     THEN IF i + 2 <= Len(p) /\ p[i + 2].k = "fn"
          THEN 1 + 2 * compiled.fns[p[i + 2].n].upValueCount
          ELSE 1
     ELSE IF name \in {"PushImmediate", "GetGlobal", "DefineGlobal", "SetGlobal",
                       "GetLocal", "SetLocal", "GetUpvalue", "SetUpvalue",
                       "CreateHT", "Call", "Return", "Jump", "JumpIfFalse"}
     THEN 1
     ELSE 0

\* The offsets of the opcodes of p, from offset i on.
RECURSIVE Opcodes(_, _)
Opcodes(p, i) ==
  IF i >= Len(p) THEN {} ELSE {i} \cup Opcodes(p, i + 1 + OperandCount(p, i))

\* C13: in the top-level program and in every function program that compile
\* returns, the operand of every Jump and JumpIfFalse is a number that is
\* not the placeholder, is at least 0 and less than the program's length,
\* and is the offset of an opcode.
C13_JumpsArePatched ==
  compiled.ok =>
    \A id \in 0..Len(compiled.fns) :
      \A i \in Opcodes(Program(id), 0) :
        Program(id)[i + 1] \in {Op("Jump"), Op("JumpIfFalse")} =>
          /\ i + 2 <= Len(Program(id))
          /\ Program(id)[i + 2].k = "num"
          /\ Program(id)[i + 2].n # Placeholder
          /\ Program(id)[i + 2].n >= 0
          /\ Program(id)[i + 2].n < Len(Program(id))
          /\ Program(id)[i + 2].n \in Opcodes(Program(id), 0)

\* C14: the last instruction of every program produced by compileFunction
\* is a Return with its operand, whatever the function's parameters and
\* locals.
C14_FunctionEndsWithReturn ==
  \A id \in 1..Len(compiled.fns) :
    /\ Len(Program(id)) >= 2
    /\ Program(id)[Len(Program(id)) - 1] = Op("Return")
    /\ Program(id)[Len(Program(id))].k = "num"

\* C15: for every scope, endScope emits as many Pops as locals were
\* declared in the scope (one for each declaration that incremented
\* localCount), so localCount is after endScope what it was at beginScope,
\* also when one name is declared twice in the scope.
C15_EndScopePopsEveryLocal ==
  \A i \in 1..Len(compiled.scopes) :
    /\ compiled.scopes[i].pops = compiled.scopes[i].declared
    /\ compiled.scopes[i].atEnd = compiled.scopes[i].atBegin

\* In every program compiled, the Function constant after each Closure is
\* followed by exactly as many (is-local, index) pairs as its upvalue count:
\* that many pairs of numbers, the first 0 or 1, and then an opcode.
ClosurePairsMatch ==
  \A id \in 0..Len(compiled.fns) :
    \A i \in Opcodes(Program(id), 0) :
      Program(id)[i + 1] = Op("Closure") =>
        /\ i + 2 <= Len(Program(id))
        /\ Program(id)[i + 2].k = "fn"
        /\ LET count == compiled.fns[Program(id)[i + 2].n].upValueCount
           IN /\ i + 2 + 2 * count < Len(Program(id))
              /\ \A j \in 1..count :
                   /\ Program(id)[i + 1 + 2 * j].k = "num"
                   /\ Program(id)[i + 1 + 2 * j].n \in {0, 1}
                   /\ Program(id)[i + 2 + 2 * j].k = "num"
              /\ Program(id)[i + 3 + 2 * count].k = "op"

\* C16: the upvalue count of the Function constant after a Closure opcode
\* equals the number of (is-local, index) pairs emitted after it, so the
\* Closure handler, which reads that many pairs, leaves the program counter
\* on the next opcode.
C16_ClosureReadsItsPairs ==
  /\ ClosurePairsMatch
  /\ (AtOp("Closure") /\ OpClosure(vm).status = "running") =>
       /\ OpClosure(vm).code = vm.code
       /\ OpClosure(vm).programCounter =
            vm.programCounter + 2 + 2 * compiled.fns[Operand(vm, 1).n].upValueCount
       /\ OpClosure(vm).programCounter \in Opcodes(Program(vm.code), 0)
       /\ OpClosure(vm).stack = Append(vm.stack, VFunction(Operand(vm, 1).n))

\* Inside a call, Closure has just run on a function with upvalues, one of
\* them taken from the running closure (is-local 0): the function is on top
\* of the stack and the program counter is after its pairs.
C16_ClosureRan ==
  /\ vm.status = "running"
  /\ Len(vm.callStack) > 0
  /\ \E i \in Opcodes(Program(vm.code), 0) :
       /\ Program(vm.code)[i + 1] = Op("Closure")
       /\ LET fn == Program(vm.code)[i + 2].n
              count == compiled.fns[fn].upValueCount
          IN /\ count >= 1
             /\ \E j \in 1..count : Program(vm.code)[i + 1 + 2 * j].n = 0
             /\ vm.programCounter = i + 2 + 2 * count
             /\ peek(vm, 0) = VFunction(fn)

\* The name DefineGlobal, SetGlobal or GetGlobal is about to read.
GlobalName == Operand(vm, 1).s

\* C17: DefineGlobal fails when the name is already defined (the natives
\* are defined from the start), SetGlobal and GetGlobal fail when it is not,
\* and a failing case leaves globals unchanged; on success DefineGlobal and
\* SetGlobal pop one value and assign it to the name's entry only, and
\* GetGlobal pushes the name's value and changes nothing else.
C17_GlobalsAreDefinedOnce ==
  [][ /\ AtOp("DefineGlobal") =>
           IF GlobalName \in DOMAIN vm.globals \/ vm'.status # "running"
           THEN vm'.status = "fatal" /\ vm'.globals = vm.globals
           ELSE /\ vm'.stack = SubSeq(vm.stack, 1, Len(vm.stack) - 1)
                /\ vm'.globals = (GlobalName :> peek(vm, 0)) @@ vm.globals
      /\ AtOp("SetGlobal") =>
           IF GlobalName \notin DOMAIN vm.globals \/ vm'.status # "running"
           THEN vm'.status = "fatal" /\ vm'.globals = vm.globals
           ELSE /\ vm'.stack = SubSeq(vm.stack, 1, Len(vm.stack) - 1)
                /\ vm'.globals = (GlobalName :> peek(vm, 0)) @@ vm.globals
      /\ AtOp("GetGlobal") =>
           IF GlobalName \notin DOMAIN vm.globals
           THEN vm'.status = "fatal" /\ vm'.globals = vm.globals
           ELSE /\ vm'.status = "running"
                /\ vm'.stack = Append(vm.stack, vm.globals[GlobalName])
                /\ vm'.globals = vm.globals
    ]_vars

\* C18: Call argc on a NativeFunction passes the argc values above the
\* callee to the native in source order (the first argument deepest); it
\* fails when the native's arity is not the variadic sentinel and argc
\* differs from it; on success it removes the callee and the arguments from
\* the stack and pushes the result when the native returned one.
C18_NativeCall ==
  [][ (AtOp("Call") /\ Operand(vm, 1).k = "num" /\ CalleeType = "NativeFunction") =>
        LET argc == Operand(vm, 1).n
            func == peek(vm, argc)
            args == SubSeq(vm.stack, Len(vm.stack) - argc + 1, Len(vm.stack))
        IN IF func.n # Variadic /\ argc # func.n
           THEN vm'.status = "fatal"
           ELSE vm'.status = "running" =>
                  /\ func.s = "print" => vm'.out = Append(vm.out, args)
                  /\ \E line \in InputLines :
                       vm'.stack =
                         SubSeq(vm.stack, 1, Len(vm.stack) - argc - 1)
                           \o (IF nativeResult(func.s, args, vm.tables, line).value.type
                                    # "undefined"
                               THEN <<nativeResult(func.s, args, vm.tables, line).value>>
                               ELSE <<>>)
    ]_vars

\* print(1, 2) has printed 1 then 2, len([7]) has left its result 1 for n,
\* and str() has failed on its argument count.
C18_NativesCalled ==
  /\ source.name = "Natives"
  /\ vm.out = <<<<VNumber(1), VNumber(2)>>>>
  /\ "n" \in DOMAIN vm.globals /\ vm.globals["n"] = VNumber(1)
  /\ vm.status = "fatal"
  /\ vm.error = "expected arguments"

\* Structural equality of two values of one type: hash tables by their
\* contents, every other value by its value.
StructurallyEqual(a, b) ==
  IF a.type = "HashTable" THEN vm.tables[a.n] = vm.tables[b.n] ELSE sameValue(a, b)

\* C19: Equal pops b and then a; when their type tags differ it raises a
\* runtime error and pushes nothing; when they are equal it pushes Bool true
\* exactly when the two values are structurally equal, two hash tables with
\* identical contents built by separate CreateHT executions included.
C19_EqualIsStructural ==
  [][ (AtOp("Equal") /\ Len(vm.stack) >= 2) =>
        IF peek(vm, 1).type # peek(vm, 0).type
        THEN /\ vm'.status = "fatal"
             /\ vm'.stack = SubSeq(vm.stack, 1, Len(vm.stack) - 2)
        ELSE /\ vm'.status = "running"
             /\ vm'.stack = SubSeq(vm.stack, 1, Len(vm.stack) - 2)
                              \o <<VBool(StructurallyEqual(peek(vm, 1), peek(vm, 0)))>>
    ]_vars

\* The two operands of a binary opcode, a pushed first, and the stack below.
OperandA == peek(vm, 1)
OperandB == peek(vm, 0)
Below(n) == SubSeq(vm.stack, 1, Len(vm.stack) - n)
Pushes(val) == vm'.status = "running" /\ vm'.stack = Append(Below(2), val)
BothAre(type) == OperandA.type = type /\ OperandB.type = type

\* C20: Sub, Multiply, Divide, Greater and Less compute a op b, a being the
\* operand pushed first, and fail when either operand is not a Number; Add
\* pushes the sum of two Numbers, the concatenation a then b of two Strings,
\* the concatenation in that order of the stringified operands for a String
\* and a Number, and fails otherwise; And, Or and Not fail on an operand
\* that is not a Bool.  (Divide is checked where the quotient is an
\* integer.)
C20_OperatorsComputeAOpB ==
  [][ /\ \A op \in {"Sub", "Multiply", "Divide", "Greater", "Less"} :
           (AtOp(op) /\ Len(vm.stack) >= 2) =>
             IF ~BothAre("Number") THEN vm'.status = "fatal"
             ELSE CASE op = "Sub" -> Pushes(VNumber(OperandA.n - OperandB.n))
                    [] op = "Multiply" -> Pushes(VNumber(OperandA.n * OperandB.n))
                    [] op = "Greater" -> Pushes(VBool(OperandA.n > OperandB.n))
                    [] op = "Less" -> Pushes(VBool(OperandA.n < OperandB.n))
                    [] op = "Divide" ->
                         /\ vm'.status # "fatal"
                         /\ vm'.status = "running" =>
                              /\ Pushes(VNumber(peek(vm', 0).n))
                              /\ peek(vm', 0).n * OperandB.n = OperandA.n
      /\ (AtOp("Add") /\ Len(vm.stack) >= 2) =>
           IF BothAre("Number") THEN Pushes(VNumber(OperandA.n + OperandB.n))
           ELSE IF BothAre("String") THEN Pushes(VString(OperandA.s \o OperandB.s))
           ELSE IF {OperandA.type, OperandB.type} = {"String", "Number"}
           THEN Pushes(VString((IF OperandA.type = "Number" THEN toString(OperandA.n)
                                                              ELSE OperandA.s)
                                 \o (IF OperandB.type = "Number" THEN toString(OperandB.n)
                                                                  ELSE OperandB.s)))
           ELSE vm'.status = "fatal"
      /\ (AtOp("And") /\ Len(vm.stack) >= 2) =>
           IF BothAre("Bool") THEN Pushes(VBool(OperandA.b /\ OperandB.b))
           ELSE vm'.status = "fatal"
      /\ (AtOp("Or") /\ Len(vm.stack) >= 2) =>
           IF BothAre("Bool") THEN Pushes(VBool(OperandA.b \/ OperandB.b))
           ELSE vm'.status = "fatal"
      /\ (AtOp("Not") /\ Len(vm.stack) >= 1) =>
           IF OperandB.type = "Bool"
           THEN vm'.status = "running" /\ vm'.stack = Append(Below(1), VBool(~OperandB.b))
           ELSE vm'.status = "fatal"
    ]_vars

\* var r = 6 - 2 has defined r as 4.
C20_SixMinusTwo ==
  /\ source.name = "Sub"
  /\ source.operands = <<N(6), N(2)>>
  /\ "r" \in DOMAIN vm.globals
  /\ vm.globals["r"] = VNumber(4)

\* The truthiness of a value: a Bool by its value, a Number when it is not
\* zero, a String when it is not empty; Null, hash tables and functions
\* are never truthy.
Truthy(val) ==
  \/ val.type = "Bool" /\ val.b
  \/ val.type = "Number" /\ val.n # 0
  \/ val.type = "String" /\ val.s # ""

\* C21: JumpIfFalse dest pops exactly one value and sets the program
\* counter to dest exactly when that value is falsy; otherwise execution
\* continues with the instruction after the operand.
C21_JumpIfFalseJumpsOnFalsy ==
  [][ (AtOp("JumpIfFalse") /\ Len(vm.stack) >= 1 /\ peek(vm, 0).type \in
         {"Bool", "Number", "String", "Null", "HashTable", "Function", "NativeFunction"}) =>
        /\ vm'.status = "running"
        /\ vm'.stack = SubSeq(vm.stack, 1, Len(vm.stack) - 1)
        /\ vm'.code = vm.code
        /\ vm'.programCounter = IF Truthy(peek(vm, 0)) THEN vm.programCounter + 2
                                ELSE Operand(vm, 1).n
    ]_vars

\* if t then print(1) else print(2) end, t a hash table, has jumped to the
\* else branch: 2 is printed and 1 is not.
C21_HashTableIsFalsy ==
  /\ source.name = "Truthy"
  /\ source.operands = <<(<<Id("t")>>)>>
  /\ vm.out = <<(<<VNumber(2)>>)>>

\* The value paired with each key of the literal of the TableGet sources,
\* and the elements of the list literal of the ListGet sources.
LiteralPairs == [a |-> VNumber(6), b |-> VString("x")]
LiteralElements == <<VNumber(6), VString("x"), VBool(TRUE)>>

\* C22: CreateHT followed by GetHT with a key of the literal pushes the
\* value that was paired with the key, and subscripting the list literal
\* [e0, ..., en-1] with the Number i, 0 <= i < n, pushes ei: the run does
\* not fail and var r = literal[key] defines r as that value.
C22_HashTableRoundTrip ==
  LET key == source.operands[1]
      expected ==
        IF source.name = "TableGet" THEN LiteralPairs[key.value]
        ELSE LiteralElements[key.digits[1] + 1]
  IN (\/ source.name = "TableGet" /\ key.type = "String"
           /\ key.value \in DOMAIN LiteralPairs
      \/ source.name = "ListGet" /\ key.type = "Number"
           /\ key.digits[1] < Len(LiteralElements)) =>
       /\ vm.status \in {"idle", "running", "halted"}
       /\ AtOp("DefineGlobal") => peek(vm, 0) = expected
       /\ vm.status = "halted" => vm.globals["r"] = expected

\* var r = [6, "x", true][1] has run to its end and r is "x".
C22_SecondElement ==
  /\ source.name = "ListGet"
  /\ source.operands = <<N(1)>>
  /\ vm.status = "halted"
  /\ vm.globals["r"] = VString("x")

\* The string a GetHT key is looked up by.
KeyString(key) == IF key.type = "Number" THEN toString(key.n) ELSE key.s

\* C23: GetHT with a key that is not present in the table, a list index at
\* or beyond the list's length included, fails with a RuntimeError and
\* pushes no value.
C23_MissingKeyFails ==
  [][ (/\ AtOp("GetHT") /\ Len(vm.stack) >= 2
       /\ peek(vm, 0).type \in {"Number", "String"}
       /\ peek(vm, 1).type = "HashTable"
       /\ KeyString(peek(vm, 0)) \notin DOMAIN vm.tables[peek(vm, 1).n].value) =>
        /\ vm'.status = "fatal"
        /\ Len(vm'.stack) <= Len(vm.stack) - 2
    ]_vars

\* C24: every call of nextToken returns a token or EOF (or raises a lexical
\* error), and once a call has returned EOF every later call returns EOF
\* again with the position and the line number of the lexer unchanged.
ReturnedEOF(l) == l.outcome = "returned" /\ l.token.type = "EOF"

EOFIsFinal ==
  ReturnedEOF(lexer) =>
    ReturnedEOF(lexer') /\ lexer'.pos = lexer.pos /\ lexer'.line = lexer.line

C24_NextTokenReturnsAndEOFIsFinal ==
  [][lexer'.outcome \in {"new", "returned", "threw"} /\ EOFIsFinal]_vars

C24_EOFIsFinal == [][EOFIsFinal]_vars

\* C25: a call of the asynchronous native read_line suspends the machine:
\* while the call is pending the function called is still on top of the
\* stack, and the only step the machine then takes is the completion of the
\* call, which pops the function and pushes the line read with globals, call
\* stack, open upvalues, output and program counter unchanged, so that the
\* opcode read next is the one that follows the Call.
Pending == vm.status = "awaiting"

Untouched ==
  /\ vm'.globals = vm.globals
  /\ vm'.callStack = vm.callStack
  /\ vm'.openUpvalues = vm.openUpvalues
  /\ vm'.out = vm.out

C25_NativeCallsAreSequential ==
  [][/\ (AtOp("Call") /\ Pending') =>
          /\ vm'.stack = SubSeq(vm.stack, 1, Len(vm.stack) - Operand(vm, 1).n)
          /\ vm'.programCounter = vm.programCounter + 2
          /\ Untouched
     /\ Pending =>
          /\ peek(vm, 0) = addRuntimeApi["read_line"]
          /\ vm'.status = "running"
          /\ \E line \in InputLines :
               vm'.stack = Append(SubSeq(vm.stack, 1, Len(vm.stack) - 1), VString(line))
          /\ vm'.programCounter = vm.programCounter
          /\ vm'.code = vm.code
          /\ Untouched]_vars

C25_LineWasRead ==
  /\ vm.status = "halted"
  /\ "l" \in DOMAIN vm.globals
  /\ vm.globals["l"] = VString("hello")

\* C26: calls nest and functions are first class.  A Return that carries a
\* value leaves the stack as it was before the callee was pushed plus that
\* one value, and hands control back after the Call; so the value is where
\* an enclosing Call looks for its argument or its callee.  The Functions
\* source ends with add(add(10, 2), 2) = 14, returnsFunction()(5) = 22 and
\* the immediately invoked anonymous function's 789.
ReturnsValue ==
  /\ AtOp("Return")
  /\ vm.callStack # <<>>
  /\ Operand(vm, 1) = RNum(1)
  /\ vm'.status = "running"

FunctionsResults(m) ==
  /\ {"twoCalls", "r", "i"} \subseteq DOMAIN m.globals
  /\ m.globals["twoCalls"] = VNumber(14)
  /\ m.globals["r"] = VNumber(22)
  /\ m.globals["i"] = VNumber(789)

C26_CallsNest ==
  [][/\ ReturnsValue =>
          /\ vm'.stack = Append(SubSeq(vm.stack, 1, frame(vm).stackBase), peek(vm, 0))
          /\ vm'.programCounter = frame(vm).callingProgramCounter
          /\ vm'.code = frame(vm).callingCode
     /\ (AtOp("Call") /\ Operand(vm, 1).k = "num" /\ CalleeType = "Function") =>
          /\ frame(vm').stackBase = Len(vm.stack) - Operand(vm, 1).n - 1
          /\ frame(vm').closure = peek(vm, Operand(vm, 1).n).n
     /\ source.name = "Functions" =>
          /\ vm'.status \in {"running", "halted"}
          /\ vm'.status = "halted" => FunctionsResults(vm')]_vars

C26_FunctionsRan ==
  source.name = "Functions" /\ vm.status = "halted" /\ FunctionsResults(vm)

\* C27: of an if / elseif / else statement exactly one body runs, that of
\* the first condition that is truthy or else the else body; the conditions
\* evaluated are those up to the chosen one and no later one; with no truthy
\* condition and no else no body runs; and control continues after the
\* statement.  In the conditional sources y() prints 1 and is true, z()
\* prints 0 and is false, body i prints i + 1, the else body prints 6 and the
\* statement after the conditional prints 9, so the output tells all of it.
RECURSIVE IfOutput(_, _, _)
IfOutput(name, conds, i) ==
  IF i > Len(conds) THEN IF name = "IfElse" THEN <<6>> ELSE <<>>
  ELSE IF conds[i] = Id("y") THEN <<1, i + 1>>
  ELSE <<0>> \o IfOutput(name, conds, i + 1)

Printed == [i \in 1..Len(vm.out) |-> vm.out[i][1].n]

IsPrefix(s, t) == Len(s) <= Len(t) /\ s = SubSeq(t, 1, Len(s))

C27_OneBranchRuns ==
  source.name \in {"If", "IfElse"} =>
    /\ vm.status \in {"idle", "running", "halted"}
    /\ IsPrefix(Printed, IfOutput(source.name, source.operands, 1) \o <<9>>)
    /\ vm.status = "halted" =>
         Printed = IfOutput(source.name, source.operands, 1) \o <<9>>

C27_SecondElseIfChosen ==
  /\ source.name = "IfElse"
  /\ source.operands = <<Id("z"), Id("z"), Id("y")>>
  /\ vm.status = "halted"
  /\ Printed = <<0, 0, 1, 4, 9>>

\* C28: in `while c do B end` the condition is evaluated before every
\* iteration, B runs once for each evaluation that is truthy and not at all
\* when the first is falsy, control continues after the loop, and the local
\* of B is popped at the end of each iteration, so the stack at the loop
\* head has the same height every time.  In the while sources lt() prints 7
\* and is i < n, the body prints its local k = i and adds one to i, and the
\* statement after the loop prints 9: counting from 0 ends with i = n.
Count == parseFloat(source.operands[1].digits)

RECURSIVE WhileOutput(_, _)
WhileOutput(i, n) ==
  IF i < n THEN <<7, i>> \o WhileOutput(i + 1, n) ELSE <<7, 9>>

LoopHead ==
  compiled.stmts[CHOOSE j \in 1..Len(compiled.stmts) : compiled.stmts[j].type = "While"].from

AtLoopHead ==
  vm.status = "running" /\ vm.callStack = <<>> /\ vm.programCounter = LoopHead

C28_WhileRepeatsWhileTruthy ==
  source.name = "While" =>
    /\ vm.status \in {"idle", "running", "halted"}
    /\ IsPrefix(Printed, WhileOutput(0, Count))
    /\ AtLoopHead => Len(vm.stack) = 0
    /\ vm.status = "halted" =>
         /\ Printed = WhileOutput(0, Count)
         /\ vm.globals["i"] = VNumber(Count)

C28_CountedToThree ==
  /\ source.name = "While"
  /\ source.operands = <<N(3)>>
  /\ vm.status = "halted"
  /\ Printed = <<7, 0, 7, 1, 7, 2, 7, 9>>
  /\ vm.globals["i"] = VNumber(3)

\* C29: binary operators group by the precedence table, whatever their
\* order in the source.  For `var r = a op1 b op2 c` with op1 and op2 of
\* different precedence the program begins with the code of a op1 (b op2 c)
\* when op2 has the higher precedence and with the code of (a op1 b) op2 c
\* when op1 has: so for + and *, for a comparison and and/or, and for
\* and/or and ==/!=.  1 + 2 * 3 is 7 and 1 * 2 + 3 is 5.
PushOf(token) ==
  IF token.type = "Number"
  THEN <<Op("PushImmediate"), RNum(parseFloat(token.digits))>>
  ELSE <<Op("PushImmediate"), RBool(token.type = "True")>>

Grouped(e) ==
  IF getRule(e[4].type).prec > getRule(e[2].type).prec
  THEN PushOf(e[1]) \o PushOf(e[3]) \o PushOf(e[5])
         \o binaryOps(e[4].type) \o binaryOps(e[2].type)
  ELSE PushOf(e[1]) \o PushOf(e[3]) \o binaryOps(e[2].type)
         \o PushOf(e[5]) \o binaryOps(e[4].type)

C29_PrecedenceDecidesGrouping ==
  (source.name = "Precedence" /\ compiled # NotCompiled) =>
    /\ compiled.ok
    /\ getRule(source.operands[2].type).prec # getRule(source.operands[4].type).prec =>
         IsPrefix(Grouped(source.operands), compiled.program)
    /\ (source.operands = <<N(1), tPlus, N(2), tStar, N(3)>> /\ vm.status = "halted") =>
         vm.globals["r"] = VNumber(7)
    /\ (source.operands = <<N(1), tStar, N(2), tPlus, N(3)>> /\ vm.status = "halted") =>
         vm.globals["r"] = VNumber(5)

C29_OnePlusTwoTimesThree ==
  /\ source.name = "Precedence"
  /\ source.operands = <<N(1), tPlus, N(2), tStar, N(3)>>
  /\ vm.status = "halted"
  /\ vm.globals["r"] = VNumber(7)

\* C30: error recovery makes progress and stops at the synchronisation set.
\* After a fatal raised at token j, synchronise leaves the cursor on the
\* first token from j on that is var, while, if, function or return, or one
\* past the first do or then if that comes first, or at EOF; and every call
\* of statement that is not made at EOF ends with the cursor further on
\* than it began.
RECURSIVE SyncTarget(_, _)
SyncTarget(toks, j) ==
  IF j > Len(toks) THEN Len(toks) + 1
  ELSE IF toks[j].type \in {"Var", "While", "If", "Function", "Return"} THEN j
  ELSE IF toks[j].type \in {"Do", "Then"} THEN j + 1
  ELSE SyncTarget(toks, j + 1)

SynchroniseStopsAtTarget ==
  \A i \in 1..Len(compiled.syncs) :
    compiled.syncs[i].stoppedAt = SyncTarget(compiled.toks, compiled.syncs[i].raisedAt)

StatementsConsume ==
  \A i \in 1..Len(compiled.calls) :
    compiled.calls[i].type = "EOF" \/ compiled.calls[i].ended > compiled.calls[i].began

C30_RecoveryStopsAtSynchronisationSet ==
  SynchroniseStopsAtTarget /\ StatementsConsume

\* C31: every opcode the compiler emits has a case in run()'s switch, in
\* particular SetUpvalue: running a program that compile returned never
\* fails with the "unknown opcode" error.
C31_EveryOpcodeIsHandled ==
  compiled.ok => ~(vm.status = "fatal" /\ vm.error = "unknown opcode")

\* C32: binary operators of equal precedence associate to the left.  For
\* `var r = a op1 b op2 c` with op1 and op2 of the same precedence the
\* program begins with the code a b op1 c op2, and 1 - 2 - 3 is -4.
LeftGrouped(e) ==
  PushOf(e[1]) \o PushOf(e[3]) \o binaryOps(e[2].type)
    \o PushOf(e[5]) \o binaryOps(e[4].type)

C32_EqualPrecedenceAssociatesLeft ==
  (source.name = "Precedence" /\ compiled.ok) =>
    /\ getRule(source.operands[2].type).prec = getRule(source.operands[4].type).prec =>
         IsPrefix(LeftGrouped(source.operands), compiled.program)
    /\ (source.operands = <<N(1), tMinus, N(2), tMinus, N(3)>> /\ vm.status = "halted") =>
         vm.globals["r"] = VNumber(0 - 4)

\* C33: nextToken terminates for every source and every position of the
\* lexer: each call ends by returning a token or by raising an error, also
\* in a whitespace run with a carriage return that no line feed follows, in
\* a comment that runs to the end of the input and in an unterminated string.
C33_NextTokenTerminates == lexer.outcome \in {"new", "returned", "threw"}

\* C34: a Call on a Function whose arity differs from the argument count
\* fails with the fatal runtime error before the body runs: no frame is
\* pushed and no instruction of the body is executed.
ArityMismatch ==
  /\ AtOp("Call")
  /\ Operand(vm, 1).k = "num"
  /\ CalleeType = "Function"
  /\ compiled.fns[peek(vm, Operand(vm, 1).n).n].arity # Operand(vm, 1).n

C34_ArityMismatchFails ==
  [][ArityMismatch => (vm'.status = "fatal" /\ vm'.callStack = vm.callStack)]_vars

\* C35: in every reachable state the cached element count of every hash
\* table equals the number of keys of its mapping, also for a literal that
\* repeats a key; so len(t) is the number of keys GetHT finds in t.
C35_LengthIsNumberOfKeys ==
  \A id \in 1..Len(vm.tables) :
    vm.tables[id].length = Cardinality(DOMAIN vm.tables[id].value)

\* ---- C36

\* A program with every function constant renumbered k lower: the function
\* objects of a compile on a used Compiler follow the k made before.
Rebase(program, k) ==
  [i \in 1..Len(program) |->
     IF program[i].k = "fn" THEN RFn(program[i].n - k) ELSE program[i]]

\* The step in which repl compiles the line it has read.
CompilesLine == vm.status = "idle" /\ vm'.status # "idle"

\* C36: compile on the Compiler object the read-eval-print loop keeps has
\* the outcome compile has on a new Compiler: it returns exactly when that
\* one returns, and it returns the same program.
C36_CompileIsRepeatable ==
  [][CompilesLine =>
       /\ compiled'.ok = compile(Tokens(source)).ok
       /\ compiled'.ok =>
            Rebase(compiled'.program, Len(compiled.fns)) = compile(Tokens(source)).program]_vars

\* The line after a line that did not compile is free of errors.
C36_ErrorFreeLineAfterFailedCompile ==
  /\ lines = 2
  /\ ~compiled.ok
  /\ vm.status = "idle"
  /\ source.name = "Line"

\* ---- C37

\* A run has ended: run returned at Halt, or fatal threw out of it.
RunEnded == vm.status \in {"halted", "fatal"}

\* The top-level program is about to read a local.
TopLevelGetLocal == vm.code = 0 /\ AtOp("GetLocal")

\* C37: after a run on the ElyVm object the read-eval-print loop keeps,
\* ended by Halt or by a fatal raised inside calls of user functions, the
\* call stack is empty, and in every run the top-level program reads its
\* locals from stack base 0.
C37_CallStackEmptyAfterRun ==
  /\ RunEnded => vm.callStack = <<>>
  /\ TopLevelGetLocal => StackBase = 0

\* The program of a later line reads a local at top level.
C37_LaterLineReadsLocal == lines = 2 /\ TopLevelGetLocal

\* ---- C38

\* Return is about to be executed with no frame on the call stack.
ReturnWithNoFrame == Len(vm.callStack) = 0 /\ AtOp("Return")

\* C38: Return executed while the call stack is empty either ends the run
\* or fails by the machine's fatal; it never fails by reading or writing a
\* field of a frame that does not exist.
C38_TopLevelReturnNeedsNoFrame ==
  [][ReturnWithNoFrame => vm'.status \in {"returned", "fatal"}]_vars

\* A top-level return has been executed.
C38_TopLevelReturnExecuted ==
  source.name = "ReturnTopLevel" /\ vm.status \notin {"idle", "running"}

====
